---- MODULE Spec2Model ----
(***************************************************************************)
(* Slope Analysis Portal: the App component (upload, drawing, analysis     *)
(* requests, export) and the raster pipeline of performTerrainAnalysis.    *)
(*                                                                         *)
(* Numbers.  Degrees are fixed-point integers, DegUnit units per degree.   *)
(* The unit is a power of two, so tile2lng, which is exact in binary       *)
(* floating point, is exact here as well.  An operation of the source      *)
(* whose result is not representable is rounded to the nearest unit, as    *)
(* the source's arithmetic rounds it: the division by 360 in lng2tile and  *)
(* the result of tile2lat.                                                 *)
(***************************************************************************)
EXTENDS Integers, Sequences, FiniteSets, TLC

\* ------------------------------------------------------------------------
\* Constants & Config
\* ------------------------------------------------------------------------

TILE_ZOOM == 12

\* The source's tiles are 512 x 512 samples.  The stitching and slope loops
\* are the source's loops over 0..TILE_SIZE-1; the model runs them on tiles
\* of this many samples per side.
TILE_SIZE == 2

\* Fixed-point units per degree.
DegUnit == 2^9

\* The quotient (lon + 180) / 360 is kept on a grid QuotUnit times finer than
\* its dividend and rounded to nearest there.
QuotUnit == 2^7

Null == <<>>
Some(v) == <<v>>
IsSome(o) == o /= <<>>
TheValue(o) == o[1]

Min(S) == CHOOSE m \in S : \A n \in S : m <= n
Max(S) == CHOOSE m \in S : \A n \in S : m >= n

\* The concatenation of a sequence of sequences.
RECURSIVE Flatten(_)
Flatten(seqs) ==
    IF Len(seqs) = 0 THEN <<>> ELSE Head(seqs) \o Flatten(Tail(seqs))

\* a / b rounded to the nearest integer (b > 0).
RoundDiv(a, b) == (2 * a + b) \div (2 * b)

\* ------------------------------------------------------------------------
\* Helper Functions: tile math
\* ------------------------------------------------------------------------

\* Math.floor((lon + 180) / 360 * Math.pow(2, zoom)).  The quotient by 360 is
\* rounded to nearest, then the product is floored.
lng2tile(lon, zoom) ==
    LET q == RoundDiv((lon + 180 * DegUnit) * QuotUnit, 360)
    IN  (q * 2^zoom) \div (DegUnit * QuotUnit)

tile2lng_no_offset(x, z) == (x * 360 * DegUnit) \div 2^z

\* x / Math.pow(2, z) * 360 - 180
tile2lng(x, z) == (x * 360 * DegUnit) \div 2^z - 180 * DegUnit

\* The window of the tile grid the model works in: NumCols columns from
\* FirstCol and NumRows rows from FirstRow, at zoom TILE_ZOOM.  The window
\* starts at tile (540, 348) of zoom 10 (9.84 E, 49.84 N).
NumCols == 4
NumRows == 4
FirstCol == 540 * 2^2
FirstRow == 348 * 2^2
LastCol == FirstCol + NumCols - 1
LastRow == FirstRow + NumRows - 1

\* EdgeLat10[y]: the latitude 180/pi * atan(sinh(pi - 2*pi*y/2^12)) of the
\* north edge of row y at zoom 12, in tenths of a unit, rounded down (the
\* edge latitudes are irrational: none lies on the grid).
EdgeLat10 ==
    [y \in 1392 .. 1401 |->
        CASE y = 1392 -> 255170
          [] y = 1393 -> 254880
          [] y = 1394 -> 254589
          [] y = 1395 -> 254298
          [] y = 1396 -> 254006
          [] y = 1397 -> 253715
          [] y = 1398 -> 253422
          [] y = 1399 -> 253130
          [] y = 1400 -> 252837
          [] y = 1401 -> 252544]

\* Row y of zoom z is row y * 2^(12 - z) of the table's zoom.
RowAtTableZoom(y, z) == y * 2^(TILE_ZOOM - z)

\* 180 / Math.PI * Math.atan(0.5 * (Math.exp(n) - Math.exp(-n))), rounded to
\* the nearest unit.
tile2lat(y, z) == RoundDiv(EdgeLat10[RowAtTableZoom(y, z)], 10)

\* Math.floor((1 - Math.log(Math.tan(..) + 1 / Math.cos(..)) / Math.PI) / 2
\*            * Math.pow(2, zoom)): the row whose edges bracket lat.
lat2tile(lat, zoom) ==
    LET y12 == CHOOSE y \in 1392 .. 1400 :
                   /\ 10 * lat <= EdgeLat10[y]
                   /\ 10 * lat > EdgeLat10[y + 1]
    IN  y12 \div 2^(TILE_ZOOM - zoom)


\* ------------------------------------------------------------------------
\* Inputs
\* ------------------------------------------------------------------------

\* Bounds of the App model.
MaxRequests == 2
MaxPoints == 3
MaxFeatures == 2

\* Map positions (e.latlng) a click can report, and vertices of uploaded
\* polygons.  PointA and PointB lie in neighbouring columns of row
\* FirstRow + 1, PointC and PointD south of them in row FirstRow + 2, PointE
\* in the tile of PointA.
PointA == [lng |-> tile2lng(FirstCol, TILE_ZOOM) + 10, lat |-> 25480]
PointB == [lng |-> tile2lng(FirstCol + 1, TILE_ZOOM) + 20, lat |-> 25470]
PointC == [lng |-> tile2lng(FirstCol, TILE_ZOOM) + 15, lat |-> 25440]
PointD == [lng |-> tile2lng(FirstCol + 1, TILE_ZOOM) + 25, lat |-> 25445]
PointE == [lng |-> tile2lng(FirstCol, TILE_ZOOM) + 35, lat |-> 25462]
Points == {PointA, PointB}

\* The corners of a square inside the quadrilateral A, B, D, C, in the tile of PointA.
InnerNW == [lng |-> tile2lng(FirstCol, TILE_ZOOM) + 28, lat |-> 25472]
InnerNE == [lng |-> tile2lng(FirstCol, TILE_ZOOM) + 40, lat |-> 25472]
InnerSE == [lng |-> tile2lng(FirstCol, TILE_ZOOM) + 40, lat |-> 25460]
InnerSW == [lng |-> tile2lng(FirstCol, TILE_ZOOM) + 28, lat |-> 25460]

RingOf(pts) == [i \in 1 .. Len(pts) |-> <<pts[i].lng, pts[i].lat>>]

Feature(type, coords) ==
    [type |-> "Feature", geometry |-> [type |-> type, coordinates |-> coords]]

PolyAB == Feature("Polygon", <<RingOf(<<PointA, PointB, PointA, PointA>>)>>)
PolyA == Feature("Polygon", <<RingOf(<<PointA, PointA, PointA, PointA>>)>>)
MultiAB ==
    Feature("MultiPolygon",
            << <<RingOf(<<PointA, PointA, PointA, PointA>>)>>,
               <<RingOf(<<PointB, PointB, PointB, PointB>>)>> >>)
\* Polygons with an interior: a quadrilateral over four tiles, a triangle over
\* the two tiles of a column, a triangle inside one tile.
QuadABDC ==
    Feature("Polygon",
            <<RingOf(<<PointA, PointB, PointD, PointC, PointA>>)>>)
TriangleACE == Feature("Polygon", <<RingOf(<<PointA, PointC, PointE, PointA>>)>>)
PointFeatureA == Feature("Point", <<PointA.lng, PointA.lat>>)
LineAB == Feature("LineString", RingOf(<<PointA, PointB>>))

\* The files a user can select.  kmz: the name ends in .kmz; kmlInside: the
\* archive holds a .kml entry; parsed: what toGeoJSON.kml returns for the
\* text (Null: no feature collection), as Some(features).
Files ==
    { [kmz |-> FALSE, kmlInside |-> FALSE,
       parsed |-> Some(<<PointFeatureA, PolyA, LineAB, MultiAB>>)],
      [kmz |-> TRUE, kmlInside |-> TRUE,
       parsed |-> Some(<<PointFeatureA, LineAB>>)],
      [kmz |-> FALSE, kmlInside |-> FALSE, parsed |-> Null],
      [kmz |-> TRUE, kmlInside |-> FALSE, parsed |-> Null] }

\* ------------------------------------------------------------------------
\* Geometry helpers (Leaflet's getBounds on a GeoJSON layer)
\* ------------------------------------------------------------------------

SeqToSet(s) == {s[i] : i \in 1 .. Len(s)}

RingsOf(geometry) ==
    IF geometry.type = "Polygon"
    THEN SeqToSet(geometry.coordinates)
    ELSE IF geometry.type = "MultiPolygon"
    THEN UNION {SeqToSet(geometry.coordinates[k]) :
                    k \in 1 .. Len(geometry.coordinates)}
    ELSE {}

\* All [lng, lat] pairs of the polygon features of a collection.
PairsOf(features) ==
    UNION {UNION {SeqToSet(r) : r \in RingsOf(features[i].geometry)} :
               i \in 1 .. Len(features)}

GetBounds(features) ==
    LET ps == PairsOf(features)
    IN  [north |-> Max({p[2] : p \in ps}), south |-> Min({p[2] : p \in ps}),
         east |-> Max({p[1] : p \in ps}), west |-> Min({p[1] : p \in ps})]


\* ------------------------------------------------------------------------
\* App state
\* ------------------------------------------------------------------------

VARIABLES
    status,         \* 'idle', 'processing', 'done', 'error'
    statusMessage,
    kmlLayer,       \* Null or Some(id of the request that made the layer)
    resultImage,    \* Null or Some(id of the request that made the overlay)
    geoData,        \* Null or Some(record)
    drawMode,       \* "polygon", "line", "point" or "null"
    drawnFeatures,  \* sequence of features
    tempPoints,     \* sequence of clicked positions
    drawingLayer,   \* the layers of drawingLayerRef, a sequence of features
    mapKml,         \* the KML outline layers on the map (request ids)
    mapImages,      \* the result image overlays on the map (request ids)
    requests        \* the analyses started so far, in order of start

appVars == <<status, statusMessage, kmlLayer, resultImage, geoData, drawMode,
             drawnFeatures, tempPoints, drawingLayer, mapKml, mapImages,
             requests>>

\* One call of performTerrainAnalysis, sample by sample.
VARIABLES
    features,       \* geoJson.features of the call
    range,          \* xMin, xMax, yMin, yMax (Null outside a call)
    tileBuffers,    \* one entry per tile of tilesToFetch
    mosaicData,     \* <<>> until allocated, then mosaicWidth * mosaicHeight
    slopeData,      \* <<>> until allocated
    rgbaData,       \* <<>> until allocated
    thrown          \* the message of the Error thrown, or ""

analysisVars == <<features, range, tileBuffers, mosaicData, slopeData, rgbaData,
                  thrown>>

\* The tile math applied to one input.
VARIABLES
    tileIn,         \* Null or Some(input)
    tileOut         \* Null or Some(results)

tileVars == <<tileIn, tileOut>>

vars == <<appVars, analysisVars, tileVars>>

\* ------------------------------------------------------------------------
\* performTerrainAnalysis, up to the await of the tile batch
\* ------------------------------------------------------------------------

TileRange(bounds) ==
    [xMin |-> lng2tile(bounds.west, TILE_ZOOM),
     xMax |-> lng2tile(bounds.east, TILE_ZOOM),
     yMin |-> lat2tile(bounds.north, TILE_ZOOM),
     yMax |-> lat2tile(bounds.south, TILE_ZOOM)]

TilesToFetchHalfOpen(r) ==
    LET nx == r.xMax - r.xMin
        ny == r.yMax - r.yMin + 1
    IN  IF nx <= 0 \/ ny <= 0 THEN <<>>
        ELSE [i \in 1 .. nx * ny |->
                 [x |-> r.xMin + ((i - 1) \div ny),
                  y |-> r.yMin + ((i - 1) % ny),
                  z |-> TILE_ZOOM]]

\* for x = xMin..xMax: for y = yMin..yMax: push {x, y, z: TILE_ZOOM}
TilesToFetch(r) ==
    LET nx == r.xMax - r.xMin + 1
        ny == r.yMax - r.yMin + 1
    IN  IF nx <= 0 \/ ny <= 0 THEN <<>>
        ELSE [i \in 1 .. nx * ny |->
                 [x |-> r.xMin + ((i - 1) \div ny),
                  y |-> r.yMin + ((i - 1) % ny),
                  z |-> TILE_ZOOM]]

MosaicWidthExclusive(r) == (r.xMax - r.xMin) * TILE_SIZE

\* (xMax - xMin + 1) * TILE_SIZE and (yMax - yMin + 1) * TILE_SIZE
MosaicWidth(r) == (r.xMax - r.xMin + 1) * TILE_SIZE
MosaicHeight(r) == (r.yMax - r.yMin + 1) * TILE_SIZE

MosaicBounds(r) ==
    [north |-> tile2lat(r.yMin, TILE_ZOOM),
     west |-> tile2lng(r.xMin, TILE_ZOOM),
     south |-> tile2lat(r.yMax + 1, TILE_ZOOM),
     east |-> tile2lng(r.xMax + 1, TILE_ZOOM)]

\* (mosaicEast - mosaicWest) / mosaicWidth and (mosaicNorth - mosaicSouth) /
\* mosaicHeight, kept as <<dividend, divisor>>.
degPerPixelX(r) ==
    <<MosaicBounds(r).east - MosaicBounds(r).west, MosaicWidth(r)>>
degPerPixelY(r) ==
    <<MosaicBounds(r).north - MosaicBounds(r).south, MosaicHeight(r)>>

\* The record of setGeoData.
GeoDataOf(r, canvas, rawSlope) ==
    [width |-> MosaicWidth(r),
     height |-> MosaicHeight(r),
     north |-> MosaicBounds(r).north,
     west |-> MosaicBounds(r).west,
     pixelW |-> degPerPixelX(r),
     pixelH |-> degPerPixelY(r),
     canvas |-> canvas,
     rawSlope |-> rawSlope]

\* A request that has issued its fetches: every tile of the range pending.
StartedAnalysis(kind, geoJson, bounds) ==
    LET r == TileRange(bounds)
    IN  [kind |-> kind, pc |-> "fetching", file |-> Null, geoJson |-> geoJson,
         range |-> Some(r),
         tileBuffers |-> [i \in 1 .. Len(TilesToFetch(r)) |-> "pending"]]

FetchingMessage(r) ==
    "Fetching " \o ToString(Len(TilesToFetch(r))) \o " DEM tiles from AWS..."


\* ------------------------------------------------------------------------
\* handleFileSelect
\* ------------------------------------------------------------------------

removeLayer(layers, layer) ==
    IF IsSome(layer) THEN layers \ {TheValue(layer)} ELSE layers

\* `if (!file) return;`
HandleFileSelectNoFile ==
    /\ UNCHANGED vars

HandleFileSelectKeepsShapes(file) ==
    /\ Len(requests) < MaxRequests
    /\ status' = "processing"
    /\ statusMessage' = "Parsing KML/KMZ..."
    /\ mapKml' = removeLayer(mapKml, kmlLayer)
    /\ mapImages' = removeLayer(mapImages, resultImage)
    /\ resultImage' = Null
    /\ geoData' = Null
    /\ requests' = Append(requests,
                          [kind |-> "upload", pc |-> "parsing",
                           file |-> Some(file), geoJson |-> <<>>,
                           range |-> Null, tileBuffers |-> <<>>])
    /\ UNCHANGED <<kmlLayer, drawMode, tempPoints, drawnFeatures,
                   drawingLayer, analysisVars, tileVars>>

\* The handler up to `await parseKmlFile(file)`.  kmlLayer and resultImage
\* are the values of the render that bound onChange: the current ones.
HandleFileSelect(file) ==
    /\ Len(requests) < MaxRequests
    /\ drawingLayer' = <<>>
    /\ drawnFeatures' = <<>>
    /\ status' = "processing"
    /\ statusMessage' = "Parsing KML/KMZ..."
    /\ mapKml' = removeLayer(mapKml, kmlLayer)
    /\ mapImages' = removeLayer(mapImages, resultImage)
    /\ resultImage' = Null
    /\ geoData' = Null
    /\ requests' = Append(requests,
                          [kind |-> "upload", pc |-> "parsing",
                           file |-> Some(file), geoJson |-> <<>>,
                           range |-> Null, tileBuffers |-> <<>>])
    /\ UNCHANGED <<kmlLayer, drawMode, tempPoints, analysisVars, tileVars>>

\* f.geometry.type === 'Polygon' || f.geometry.type === 'MultiPolygon'
IsPolygonFeature(f) ==
    f.geometry.type = "Polygon" \/ f.geometry.type = "MultiPolygon"

ParseOutcomeUnfiltered(file) ==
    IF file.kmz /\ ~file.kmlInside
    THEN [ok |-> FALSE, message |-> "Invalid KMZ: No KML file found inside."]
    ELSE IF file.parsed = Null
    THEN [ok |-> FALSE, message |-> "Invalid KML data structure."]
    ELSE IF Len(SelectSeq(TheValue(file.parsed), IsPolygonFeature)) = 0
    THEN [ok |-> FALSE, message |-> "No Polygon layer detected"]
    ELSE [ok |-> TRUE, features |-> TheValue(file.parsed)]

\* parseKmlFile, parseKmlTextToGeoJson and the checks of the try block: the
\* error thrown, or the polygon features.
ParseOutcome(file) ==
    IF file.kmz /\ ~file.kmlInside
    THEN [ok |-> FALSE, message |-> "Invalid KMZ: No KML file found inside."]
    ELSE IF file.parsed = Null
    THEN [ok |-> FALSE, message |-> "Invalid KML data structure."]
    ELSE LET polygonFeatures ==
                 SelectSeq(TheValue(file.parsed), IsPolygonFeature)
         IN  IF Len(polygonFeatures) = 0
             THEN [ok |-> FALSE, message |-> "No Polygon layer detected"]
             ELSE [ok |-> TRUE, features |-> polygonFeatures]

\* A request whose async function has returned or thrown: its locals are gone.
Ended(req, pc) ==
    [kind |-> req.kind, pc |-> pc, file |-> Null, geoJson |-> <<>>,
     range |-> Null, tileBuffers |-> <<>>]

\* catch (err) of handleFileSelect
CatchError(message) ==
    /\ status' = "error"
    /\ statusMessage' = "Error: " \o message

ParseResolveLayerFirst(rid) ==
    /\ requests[rid].pc = "parsing"
    /\ LET out == ParseOutcome(TheValue(requests[rid].file))
       IN  IF out.ok
           THEN LET req == StartedAnalysis("upload", out.features,
                                           GetBounds(out.features))
                IN  /\ mapKml' = mapKml \cup {rid}
                    /\ kmlLayer' = Some(rid)
                    /\ statusMessage' = FetchingMessage(TheValue(req.range))
                    /\ requests' = [requests EXCEPT ![rid] = req]
                    /\ UNCHANGED status
           ELSE /\ CatchError(out.message)
                /\ requests' = [requests EXCEPT ![rid] = Ended(@, "failed")]
                /\ mapKml' = mapKml \cup {rid}
                /\ kmlLayer' = Some(rid)
    /\ UNCHANGED <<resultImage, geoData, drawMode, drawnFeatures, tempPoints,
                   drawingLayer, mapImages, analysisVars, tileVars>>

\* The handler from the resolution of parseKmlFile to the await of the tile
\* batch, or to its catch block.
ParseResolve(rid) ==
    /\ requests[rid].pc = "parsing"
    /\ LET out == ParseOutcome(TheValue(requests[rid].file))
       IN  IF out.ok
           THEN LET req == StartedAnalysis("upload", out.features,
                                           GetBounds(out.features))
                IN  /\ mapKml' = mapKml \cup {rid}
                    /\ kmlLayer' = Some(rid)
                    /\ statusMessage' = FetchingMessage(TheValue(req.range))
                    /\ requests' = [requests EXCEPT ![rid] = req]
                    /\ UNCHANGED status
           ELSE /\ CatchError(out.message)
                /\ requests' = [requests EXCEPT ![rid] = Ended(@, "failed")]
                /\ UNCHANGED <<kmlLayer, mapKml>>
    /\ UNCHANGED <<resultImage, geoData, drawMode, drawnFeatures, tempPoints,
                   drawingLayer, mapImages, analysisVars, tileVars>>

\* ------------------------------------------------------------------------
\* performTerrainAnalysis, from the tile batch on
\* ------------------------------------------------------------------------

AnalysisContinueStatusOnly(rid, tb) ==
    LET req == requests[rid]
        validTiles == {i \in DOMAIN tb : tb[i] /= "null"}
    IN  IF validTiles = {}
        THEN /\ requests' = [requests EXCEPT ![rid] = Ended(@, "failed")]
             /\ IF req.kind = "upload"
                THEN CatchError("Could not download any elevation data.")
                ELSE UNCHANGED <<status, statusMessage>>
             /\ UNCHANGED <<resultImage, geoData, mapImages>>
        ELSE /\ requests' = [requests EXCEPT ![rid] = Ended(@, "done")]
             /\ mapImages' = mapImages \cup {rid}
             /\ resultImage' = Some(rid)
             /\ status' = "done"
             /\ statusMessage' = "Analysis Complete."
             /\ UNCHANGED geoData

\* The continuation after `await Promise.all(...)`: the throw when no tile is
\* valid (caught by handleFileSelect, by nothing in triggerAnalysisFromDraw),
\* else the overlay, setResultImage, setGeoData and setStatus('done').  The
\* canvas and the slope buffer of request rid are named by rid here; Analysis
\* below computes them.
AnalysisContinue(rid, tb) ==
    LET req == requests[rid]
        validTiles == {i \in DOMAIN tb : tb[i] /= "null"}
    IN  IF validTiles = {}
        THEN /\ requests' = [requests EXCEPT ![rid] = Ended(@, "failed")]
             /\ IF req.kind = "upload"
                THEN CatchError("Could not download any elevation data.")
                ELSE UNCHANGED <<status, statusMessage>>
             /\ UNCHANGED <<resultImage, geoData, mapImages>>
        ELSE /\ requests' = [requests EXCEPT ![rid] = Ended(@, "done")]
             /\ mapImages' = mapImages \cup {rid}
             /\ resultImage' = Some(rid)
             /\ geoData' = Some(GeoDataOf(TheValue(req.range), rid, rid))
             /\ status' = "done"
             /\ statusMessage' = "Analysis Complete."

\* One fetch of the batch resolves, to a tile (ok) or, through the catch of
\* the map callback, to null.  The resolution of the last pending fetch
\* resolves Promise.all and runs the continuation.
TileResolve(rid, i, ok) ==
    /\ requests[rid].pc = "fetching"
    /\ i \in DOMAIN requests[rid].tileBuffers
    /\ requests[rid].tileBuffers[i] = "pending"
    /\ LET tb == [requests[rid].tileBuffers EXCEPT
                      ![i] = IF ok THEN "tile" ELSE "null"]
       IN  IF \E j \in DOMAIN tb : tb[j] = "pending"
           THEN /\ requests' = [requests EXCEPT ![rid].tileBuffers = tb]
                /\ UNCHANGED <<status, statusMessage, resultImage, geoData,
                               mapImages>>
           ELSE AnalysisContinue(rid, tb)
    /\ UNCHANGED <<kmlLayer, drawMode, drawnFeatures, tempPoints,
                   drawingLayer, mapKml, analysisVars, tileVars>>

\* ------------------------------------------------------------------------
\* Drawing
\* ------------------------------------------------------------------------

\* The draw mode buttons.
SetDrawMode(mode) ==
    /\ drawMode' = mode
    /\ UNCHANGED <<status, statusMessage, kmlLayer, resultImage, geoData,
                   drawnFeatures, tempPoints, drawingLayer, mapKml,
                   mapImages, requests, analysisVars, tileVars>>

\* The Cancel button of the drawing hint, rendered while drawMode is set.
Cancel ==
    /\ drawMode /= "null"
    /\ drawMode' = "null"
    /\ tempPoints' = <<>>
    /\ UNCHANGED <<status, statusMessage, kmlLayer, resultImage, geoData,
                   drawnFeatures, drawingLayer, mapKml, mapImages, requests,
                   analysisVars, tileVars>>

\* addDrawnFeature
addDrawnFeature(feature) ==
    /\ drawnFeatures' = Append(drawnFeatures, feature)
    /\ drawingLayer' = Append(drawingLayer, feature)

\* The map's click listener.
OnClick(latlng) ==
    /\ IF drawMode = "null"
       THEN UNCHANGED <<drawMode, drawnFeatures, tempPoints, drawingLayer>>
       ELSE IF drawMode = "point"
       THEN /\ Len(drawnFeatures) < MaxFeatures
            /\ addDrawnFeature(Feature("Point", <<latlng.lng, latlng.lat>>))
            /\ drawMode' = "null"
            /\ UNCHANGED tempPoints
       ELSE /\ Len(tempPoints) < MaxPoints
            /\ tempPoints' = Append(tempPoints, latlng)
            /\ UNCHANGED <<drawMode, drawnFeatures, drawingLayer>>
    /\ UNCHANGED <<status, statusMessage, kmlLayer, resultImage, geoData,
                   mapKml, mapImages, requests, analysisVars, tileVars>>

\* finishDrawing is called by the contextmenu and dblclick listeners bound
\* once on mount, so it and the triggerAnalysisFromDraw it calls are those of
\* the first render: their kmlLayer and resultImage are the initial state.
MountKmlLayer == Null
MountResultImage == Null

\* triggerAnalysisFromDraw, with performTerrainAnalysis up to the await of
\* the tile batch.
triggerAnalysisFromDraw(feature) ==
    LET geoJson == <<feature>>
        req == StartedAnalysis("draw", geoJson, GetBounds(geoJson))
    IN  /\ mapKml' = removeLayer(mapKml, MountKmlLayer)
        /\ mapImages' = removeLayer(mapImages, MountResultImage)
        /\ resultImage' = Null
        /\ geoData' = Null
        /\ kmlLayer' = Null
        /\ status' = "processing"
        /\ statusMessage' = FetchingMessage(TheValue(req.range))
        /\ requests' = Append(requests, req)

ResetDrawing ==
    /\ drawMode' = "null"
    /\ tempPoints' = <<>>

noAnalysis ==
    UNCHANGED <<status, statusMessage, kmlLayer, resultImage, geoData, mapKml,
                mapImages, requests>>

FinishDrawingOneShort ==
    /\ UNCHANGED <<analysisVars, tileVars>>
    /\ ResetDrawing
    /\ IF drawMode = "null" \/ Len(tempPoints) = 0
       THEN /\ UNCHANGED <<drawnFeatures, drawingLayer>>
            /\ noAnalysis
       ELSE IF drawMode = "polygon"
       THEN IF Len(tempPoints) < 2
            THEN /\ UNCHANGED <<drawnFeatures, drawingLayer>>
                 /\ noAnalysis
            ELSE LET newFeature ==
                         Feature("Polygon",
                                 <<RingOf(Append(tempPoints, tempPoints[1]))>>)
                 IN  /\ Len(drawnFeatures) < MaxFeatures
                     /\ Len(requests) < MaxRequests
                     /\ addDrawnFeature(newFeature)
                     /\ triggerAnalysisFromDraw(newFeature)
       ELSE IF drawMode = "line"
       THEN IF Len(tempPoints) < 1
            THEN /\ UNCHANGED <<drawnFeatures, drawingLayer>>
                 /\ noAnalysis
            ELSE /\ Len(drawnFeatures) < MaxFeatures
                 /\ addDrawnFeature(Feature("LineString", RingOf(tempPoints)))
                 /\ noAnalysis
       ELSE /\ UNCHANGED <<drawnFeatures, drawingLayer>>
            /\ noAnalysis

FinishDrawingOpenRing ==
    /\ UNCHANGED <<analysisVars, tileVars>>
    /\ ResetDrawing
    /\ IF drawMode = "null" \/ Len(tempPoints) = 0
       THEN /\ UNCHANGED <<drawnFeatures, drawingLayer>>
            /\ noAnalysis
       ELSE IF drawMode = "polygon"
       THEN IF Len(tempPoints) < 3
            THEN /\ UNCHANGED <<drawnFeatures, drawingLayer>>
                 /\ noAnalysis
            ELSE LET newFeature == Feature("Polygon", <<RingOf(tempPoints)>>)
                 IN  /\ Len(drawnFeatures) < MaxFeatures
                     /\ Len(requests) < MaxRequests
                     /\ addDrawnFeature(newFeature)
                     /\ triggerAnalysisFromDraw(newFeature)
       ELSE IF drawMode = "line"
       THEN IF Len(tempPoints) < 2
            THEN /\ UNCHANGED <<drawnFeatures, drawingLayer>>
                 /\ noAnalysis
            ELSE /\ Len(drawnFeatures) < MaxFeatures
                 /\ addDrawnFeature(Feature("LineString", RingOf(tempPoints)))
                 /\ noAnalysis
       ELSE /\ UNCHANGED <<drawnFeatures, drawingLayer>>
            /\ noAnalysis

\* finishDrawing (right click or double click on the map)
FinishDrawing ==
    /\ UNCHANGED <<analysisVars, tileVars>>
    /\ ResetDrawing
    /\ IF drawMode = "null" \/ Len(tempPoints) = 0
       THEN /\ UNCHANGED <<drawnFeatures, drawingLayer>>
            /\ noAnalysis
       ELSE IF drawMode = "polygon"
       THEN IF Len(tempPoints) < 3
            THEN /\ UNCHANGED <<drawnFeatures, drawingLayer>>
                 /\ noAnalysis
            ELSE LET newFeature ==
                         Feature("Polygon",
                                 <<RingOf(Append(tempPoints, tempPoints[1]))>>)
                 IN  /\ Len(drawnFeatures) < MaxFeatures
                     /\ Len(requests) < MaxRequests
                     /\ addDrawnFeature(newFeature)
                     /\ triggerAnalysisFromDraw(newFeature)
       ELSE IF drawMode = "line"
       THEN IF Len(tempPoints) < 2
            THEN /\ UNCHANGED <<drawnFeatures, drawingLayer>>
                 /\ noAnalysis
            ELSE /\ Len(drawnFeatures) < MaxFeatures
                 /\ addDrawnFeature(Feature("LineString", RingOf(tempPoints)))
                 /\ noAnalysis
       ELSE /\ UNCHANGED <<drawnFeatures, drawingLayer>>
            /\ noAnalysis

\* ------------------------------------------------------------------------
\* generateKML and handleDownloadKml
\* ------------------------------------------------------------------------

\* The text of the document is kept as the sequence of its pieces: a piece of
\* markup or separator, or a number as the template literal writes it
\* (Number to String, which reads back as the same number).
Markup(text) == [text |-> text, number |-> 0]
Number(n) == [text |-> "#", number |-> n]

\* `${c[0]},${c[1]}`
PairText(c) == <<Number(c[1]), Markup(","), Number(c[2])>>

\* coordinates.map(c => `${c[0]},${c[1]}`).join(' ')
RECURSIVE JoinPairs(_)
JoinPairs(coords) ==
    IF Len(coords) = 0 THEN <<>>
    ELSE IF Len(coords) = 1 THEN PairText(coords[1])
    ELSE PairText(coords[1]) \o <<Markup(" ")>> \o JoinPairs(Tail(coords))

\* coordinates[0].forEach(c => kml += `${c[0]},${c[1]}\n`)
RingLines(ring) ==
    Flatten([k \in 1 .. Len(ring) |-> PairText(ring[k]) \o <<Markup("\n")>>])

PolygonOpen ==
    <<Markup("<Polygon>"), Markup("<outerBoundaryIs>"),
      Markup("<LinearRing>"), Markup("<coordinates>")>>
PolygonClose ==
    <<Markup("</coordinates>"), Markup("</LinearRing>"),
      Markup("</outerBoundaryIs>"), Markup("</Polygon>")>>

GeometryTextAllRings(geometry) ==
    IF geometry.type = "Point"
    THEN <<Markup("<Point>"), Markup("<coordinates>")>>
         \o PairText(geometry.coordinates)
         \o <<Markup("</coordinates>"), Markup("</Point>")>>
    ELSE IF geometry.type = "LineString"
    THEN <<Markup("<LineString>"), Markup("<coordinates>")>>
         \o JoinPairs(geometry.coordinates)
         \o <<Markup("</coordinates>"), Markup("</LineString>")>>
    ELSE IF geometry.type = "Polygon"
    THEN PolygonOpen \o RingLines(Flatten(geometry.coordinates))
         \o PolygonClose
    ELSE <<>>

\* The if / else if chain on f.geometry.type: nothing for any other type.
GeometryText(geometry) ==
    IF geometry.type = "Point"
    THEN <<Markup("<Point>"), Markup("<coordinates>")>>
         \o PairText(geometry.coordinates)
         \o <<Markup("</coordinates>"), Markup("</Point>")>>
    ELSE IF geometry.type = "LineString"
    THEN <<Markup("<LineString>"), Markup("<coordinates>")>>
         \o JoinPairs(geometry.coordinates)
         \o <<Markup("</coordinates>"), Markup("</LineString>")>>
    ELSE IF geometry.type = "Polygon"
    THEN PolygonOpen \o RingLines(geometry.coordinates[1]) \o PolygonClose
    ELSE <<>>

KmlHeader ==
    <<Markup("<?xml version=\"1.0\" encoding=\"UTF-8\"?>"),
      Markup("<kml xmlns=\"http://www.opengis.net/kml/2.2\">"),
      Markup("<Document>"), Markup("<name>User Drawn Shapes</name>")>>
KmlFooter == <<Markup("</Document>"), Markup("</kml>")>>

\* The text features.forEach appends for feature f at index i (from 0).
PlacemarkText(f, i, geometryText) ==
    <<Markup("<Placemark>"), Markup("<name>"), Markup("Shape "),
      Number(i + 1), Markup("</name>"),
      Markup("<styleUrl>#polyStyle</styleUrl>")>>
    \o geometryText
    \o <<Markup("</Placemark>")>>

generateKMLAllRings(kmlFeatures) ==
    KmlHeader
    \o Flatten([k \in 1 .. Len(kmlFeatures) |->
                   PlacemarkText(kmlFeatures[k], k - 1,
                                 GeometryTextAllRings(kmlFeatures[k].geometry))])
    \o KmlFooter

generateKML(kmlFeatures) ==
    KmlHeader
    \o Flatten([k \in 1 .. Len(kmlFeatures) |->
                   PlacemarkText(kmlFeatures[k], k - 1,
                                 GeometryText(kmlFeatures[k].geometry))])
    \o KmlFooter

\* What handleDownloadKml hands to the browser: Null when it returns at
\* `if (drawnFeatures.length === 0) return;`, else the document.
handleDownloadKml(drawn) ==
    IF Len(drawn) = 0 THEN Null ELSE Some(generateKML(drawn))

\* ------------------------------------------------------------------------
\* handleDownload
\* ------------------------------------------------------------------------

\* Quotients are kept as <<dividend, divisor>>.
Half(q) == <<q[1], 2 * q[2]>>
Neg(q) == <<-q[1], q[2]>>
\* n + q and n - q for an integer n
IntPlus(n, q) == <<n * q[2] + q[1], q[2]>>
IntMinus(n, q) == <<n * q[2] - q[1], q[2]>>

\* The world file holds its values as decimal text, Number.prototype.toFixed:
\* the multiple of the last kept digit nearest to the value, the one of larger
\* magnitude on a tie.  The text is kept as that count of steps of the last
\* digit; the model keeps FixedPerUnit steps per fixed-point unit.
FixedPerUnit == 25
toFixed(q) ==
    IF q[1] < 0
    THEN 0 - RoundDiv((0 - q[1]) * FixedPerUnit, q[2])
    ELSE RoundDiv(q[1] * FixedPerUnit, q[2])

handleDownloadPositiveHeight(gd) ==
    IF gd = Null THEN Null
    ELSE LET g == TheValue(gd)
             ulX == IntPlus(g.west, Half(g.pixelW))
             ulY == IntMinus(g.north, Half(g.pixelH))
         IN  Some([tif |-> g.canvas,
                   tfw |-> <<toFixed(g.pixelW), 0, 0, toFixed(g.pixelH),
                             toFixed(ulX), toFixed(ulY)>>,
                   prj |-> "GEOGCS[\"GCS_WGS_1984\",...]"])

handleDownloadCorner(gd) ==
    IF gd = Null THEN Null
    ELSE LET g == TheValue(gd)
             ulX == <<g.west, 1>>
             ulY == <<g.north, 1>>
         IN  Some([tif |-> g.canvas,
                   tfw |-> <<toFixed(g.pixelW), 0, 0, toFixed(Neg(g.pixelH)),
                             toFixed(ulX), toFixed(ulY)>>,
                   prj |-> "GEOGCS[\"GCS_WGS_1984\",...]"])

\* What handleDownload hands to the browser: Null when it returns at
\* `if (!geoData) return;`, else the three entries of the zip, the world file
\* as its six lines.
handleDownload(gd) ==
    IF gd = Null THEN Null
    ELSE LET g == TheValue(gd)
             ulX == IntPlus(g.west, Half(g.pixelW))
             ulY == IntMinus(g.north, Half(g.pixelH))
         IN  Some([tif |-> g.canvas,
                   tfw |-> <<toFixed(g.pixelW), 0, 0, toFixed(Neg(g.pixelH)),
                             toFixed(ulX), toFixed(ulY)>>,
                   prj |-> "GEOGCS[\"GCS_WGS_1984\",...]"])

\* ------------------------------------------------------------------------
\* performTerrainAnalysis, sample by sample
\* ------------------------------------------------------------------------

\* What a fetch of tile t can resolve to: null (the catch of the map
\* callback), or the tile with its samples rasters[0], row-major.  The
\* elevation service's answers: level ground, a ramp rising eastward, peaks
\* on every other sample, and level ground with one void sample, the second
\* of the first row or the first of the second row.
VoidElevation == 0 - 32768
Rasters ==
    {[name |-> n, at |-> 0] : n \in {"level", "ramp", "peaks"}}
        \cup {[name |-> "void", at |-> k] : k \in {1, TILE_SIZE}}

SamplesOf(raster, t) ==
    [k \in 1 .. TILE_SIZE * TILE_SIZE |->
        LET row == (k - 1) \div TILE_SIZE
            col == (k - 1) % TILE_SIZE
        IN  CASE raster.name = "level" -> 100
              [] raster.name = "ramp" ->
                     400 * ((t.x - FirstCol) * TILE_SIZE + col)
              [] raster.name = "peaks" -> 9000 * ((row + col) % 2)
              [] OTHER -> IF k - 1 = raster.at THEN VoidElevation ELSE 100]

Pending(t) == [state |-> "pending", x |-> t.x, y |-> t.y, data |-> <<>>]
FetchedNull(t) == [state |-> "null", x |-> t.x, y |-> t.y, data |-> <<>>]
FetchedTile(t, raster) ==
    [state |-> "tile", x |-> t.x, y |-> t.y, data |-> SamplesOf(raster, t)]

\* Promise.all resolves when every promise of the batch has resolved.
BatchRaced(tb) == \E i \in DOMAIN tb : tb[i].state /= "pending"

BatchResolved(tb) == \A i \in DOMAIN tb : tb[i].state /= "pending"

\* t !== null, of a resolved entry
IsValidTile(t) == t.state = "tile"

\* validTiles.length === 0
NoTileOrAnyNull(validTiles, tb) == Len(validTiles) < Len(tb)

NoValidTile(validTiles, tb) == Len(validTiles) = 0

\* new Float32Array(n), new Uint8Array(n)
ZeroArray(n) == [i \in 1 .. n |-> 0]

\* array[idx] = val on a typed array: a store outside the array is dropped.
SetElement(array, idx, val) ==
    IF idx >= 0 /\ idx < Len(array)
    THEN [array EXCEPT ![idx + 1] = val]
    ELSE array

\* array[idx] on a typed array
Element(array, idx) == array[idx + 1]

MosaicIdxTileStride(offsetX, offsetY, row, col, mosaicWidth) ==
    (offsetY + row) * TILE_SIZE + (offsetX + col)

\* (offsetY + r) * mosaicWidth + (offsetX + c)
MosaicIdx(offsetX, offsetY, row, col, mosaicWidth) ==
    (offsetY + row) * mosaicWidth + (offsetX + col)

\* The mosaic index the loops write sample k (= r * TILE_SIZE + c) of tile to.
WriteIdx(tile, r, k) ==
    MosaicIdx((tile.x - r.xMin) * TILE_SIZE, (tile.y - r.yMin) * TILE_SIZE,
              k \div TILE_SIZE, k % TILE_SIZE, MosaicWidth(r))

\* The two loops over r and c, from sample k on.
RECURSIVE CopyTile(_, _, _, _)
CopyTile(mosaic, tile, r, k) ==
    IF k = TILE_SIZE * TILE_SIZE THEN mosaic
    ELSE CopyTile(SetElement(mosaic, WriteIdx(tile, r, k), tile.data[k + 1]),
                  tile, r, k + 1)

\* validTiles.forEach(tile => ...), from tile i on.
RECURSIVE StitchTiles(_, _, _, _)
StitchTiles(mosaic, validTiles, r, i) ==
    IF i > Len(validTiles) THEN mosaic
    ELSE StitchTiles(CopyTile(mosaic, validTiles[i], r, 0), validTiles, r,
                     i + 1)

Stitch(validTiles, r) ==
    StitchTiles(ZeroArray(MosaicWidth(r) * MosaicHeight(r)), validTiles, r, 1)

metersPerLat == 111320

\* 10^4 * Math.cos(lat * Math.PI / 180) for the latitudes of the window,
\* between 49 and 50 degrees: the chord through cos 49 and cos 50.
CosE4(lat) == 6561 - ((lat - 49 * DegUnit) * 133) \div DegUnit

metersPerLng(r) ==
    LET centerLat == (MosaicBounds(r).north + MosaicBounds(r).south) \div 2
    IN  (111320 * CosE4(centerLat)) \div 10000

\* degPerPixelX * metersPerLng and degPerPixelY * metersPerLat, in metres.
cellSizeX(r) ==
    (degPerPixelX(r)[1] * metersPerLng(r)) \div (degPerPixelX(r)[2] * DegUnit)
cellSizeY(r) ==
    (degPerPixelY(r)[1] * metersPerLat) \div (degPerPixelY(r)[2] * DegUnit)

Abs(n) == IF n < 0 THEN 0 - n ELSE n

\* TanSqE6[d + 1]: 10^6 * tan(d degrees)^2, rounded down, d = 0 .. 88.
TanSqE6 ==
    <<0, 304, 1219, 2746, 4889, 7654, 11046, 15076, 19751, 25085, 31091,
      37783, 45180, 53300, 62164, 71796, 82222, 93471, 105572, 118561,
      132474, 147351, 163237, 180178, 198228, 217442, 237883, 259616,
      282714, 307258, 333333, 361033, 390461, 421730, 454961, 490290,
      527864, 567843, 610407, 655750, 704088, 755659, 810727, 869584,
      932554, 1000000, 1072323, 1149974, 1233460, 1323347, 1420276,
      1524970, 1638250, 1761047, 1894427, 2039606, 2197987, 2371184,
      2561070, 2769826, 3000000, 3254588, 3537132, 3851839, 4203745,
      4598909, 5044681, 5550040, 6126054, 6786489, 7548632, 8434440,
      9472135, 10698476, 12162059, 13928203, 16086363, 18761683, 22133544,
      26466436, 32163437, 39863458, 50628486, 66330378, 90523130, 130646095,
      204509055, 364089777, 820035002>>

slopeDegOfSums(zN, zS, zE, zW, cellX, cellY) ==
    LET dzdx == (Abs(zE + zW) * 1000) \div (2 * cellX)
        dzdy == (Abs(zN + zS) * 1000) \div (2 * cellY)
        riseRunSq == dzdx * dzdx + dzdy * dzdy
    IN  IF riseRunSq > TanSqE6[Len(TanSqE6)] THEN 90
        ELSE Cardinality({d \in 0 .. Len(TanSqE6) - 1 :
                             TanSqE6[d + 1] < riseRunSq})

\* Math.atan(Math.sqrt(dzdx * dzdx + dzdy * dzdy)) * (180 / Math.PI), rounded
\* up to whole degrees (90 above 88 degrees): the number of whole degrees
\* whose tangent is below the rise over run.  dzdx and dzdy are kept in
\* thousandths.  The comparisons slopeDeg <= range.max, whose range.max are
\* whole degrees, are those of the unrounded slope.
slopeDeg(zN, zS, zE, zW, cellX, cellY) ==
    LET dzdx == (Abs(zE - zW) * 1000) \div (2 * cellX)
        dzdy == (Abs(zN - zS) * 1000) \div (2 * cellY)
        riseRunSq == dzdx * dzdx + dzdy * dzdy
    IN  IF riseRunSq > TanSqE6[Len(TanSqE6)] THEN 90
        ELSE Cardinality({d \in 0 .. Len(TanSqE6) - 1 :
                             TanSqE6[d + 1] < riseRunSq})

SlopeRangesUpTo45 ==
    << [max |-> 2, color |-> <<46, 204, 113>>],
       [max |-> 5, color |-> <<88, 214, 141>>],
       [max |-> 9, color |-> <<130, 224, 170>>],
       [max |-> 15, color |-> <<247, 220, 111>>],
       [max |-> 20, color |-> <<241, 196, 15>>],
       [max |-> 25, color |-> <<243, 156, 18>>],
       [max |-> 30, color |-> <<230, 126, 34>>],
       [max |-> 35, color |-> <<211, 84, 0>>],
       [max |-> 45, color |-> <<192, 57, 43>>],
       [max |-> 45, color |-> <<146, 43, 33>>] >>

\* SLOPE_RANGES, each colour as chroma(color).rgb() gives it.
SLOPE_RANGES ==
    << [max |-> 2, color |-> <<46, 204, 113>>],
       [max |-> 5, color |-> <<88, 214, 141>>],
       [max |-> 9, color |-> <<130, 224, 170>>],
       [max |-> 15, color |-> <<247, 220, 111>>],
       [max |-> 20, color |-> <<241, 196, 15>>],
       [max |-> 25, color |-> <<243, 156, 18>>],
       [max |-> 30, color |-> <<230, 126, 34>>],
       [max |-> 35, color |-> <<211, 84, 0>>],
       [max |-> 45, color |-> <<192, 57, 43>>],
       [max |-> 999, color |-> <<146, 43, 33>>] >>

ColorOfExclusive(slope) ==
    LET fits == {i \in DOMAIN SLOPE_RANGES : slope < SLOPE_RANGES[i].max}
    IN  IF fits = {} THEN <<0, 0, 0>> ELSE SLOPE_RANGES[Min(fits)].color

\* The colour loop: the first range with slopeDeg <= range.max, '#00000000'
\* when there is none.
ColorOf(slope) ==
    LET fits == {i \in DOMAIN SLOPE_RANGES : slope <= SLOPE_RANGES[i].max}
    IN  IF fits = {} THEN <<0, 0, 0>> ELSE SLOPE_RANGES[Min(fits)].color

NoDataBelow == -10000

IsNoDataOrUnset(zN, zS, zE, zW) ==
    zN < NoDataBelow \/ zS < NoDataBelow \/ zE < NoDataBelow
        \/ zW < NoDataBelow \/ (zN = 0 /\ zS = 0 /\ zE = 0 /\ zW = 0)

IsNoDataNorthSouth(zN, zS, zE, zW) ==
    zN < NoDataBelow \/ zS < NoDataBelow

\* zN < -10000 || zS < -10000 || zE < -10000 || zW < -10000
IsNoData(zN, zS, zE, zW) ==
    zN < NoDataBelow \/ zS < NoDataBelow \/ zE < NoDataBelow
        \/ zW < NoDataBelow

InLoopThroughLastColumn(x, y, mosaicWidth, mosaicHeight) ==
    y >= 1 /\ y < mosaicHeight - 1 /\ x >= 1 /\ x < mosaicWidth

\* The pixels the two loops visit: for (y = 1; y < mosaicHeight - 1; y++)
\* for (x = 1; x < mosaicWidth - 1; x++).
InLoop(x, y, mosaicWidth, mosaicHeight) ==
    y >= 1 /\ y < mosaicHeight - 1 /\ x >= 1 /\ x < mosaicWidth - 1

\* The indices of mosaicData the loop body reads at pixel (x, y).
StencilIdx(mosaicWidth, x, y) ==
    [N |-> (y - 1) * mosaicWidth + x,
     S |-> (y + 1) * mosaicWidth + x,
     E |-> y * mosaicWidth + (x + 1),
     W |-> y * mosaicWidth + (x - 1)]

SlopePixelOneSided(mosaic, mosaicWidth, mosaicHeight, cellX, cellY, x, y) ==
    IF x < 1 \/ x >= mosaicWidth - 1 \/ y < 1 \/ y >= mosaicHeight - 1
    THEN [slope |-> 0, rgba |-> <<0, 0, 0, 0>>]
    ELSE LET zN == Element(mosaic, (y - 1) * mosaicWidth + x)
             zS == Element(mosaic, (y + 1) * mosaicWidth + x)
             zE == Element(mosaic, y * mosaicWidth + (x + 1))
             zW == Element(mosaic, y * mosaicWidth + x)
         IN  IF IsNoData(zN, zS, zE, zW)
             THEN [slope |-> 0, rgba |-> <<0, 0, 0, 0>>]
             ELSE LET s == slopeDeg(zN, zS, zE, zW, cellX, cellY)
                  IN  [slope |-> s, rgba |-> ColorOf(s) \o <<210>>]

\* What the slope loop leaves at pixel (x, y): the slope and the four bytes.
\* The loop runs over 1 <= y < mosaicHeight - 1, 1 <= x < mosaicWidth - 1;
\* the other pixels keep the zeros of their arrays.
SlopePixel(mosaic, mosaicWidth, mosaicHeight, cellX, cellY, x, y) ==
    IF ~InLoop(x, y, mosaicWidth, mosaicHeight)
    THEN [slope |-> 0, rgba |-> <<0, 0, 0, 0>>]
    ELSE LET zN == Element(mosaic, StencilIdx(mosaicWidth, x, y).N)
             zS == Element(mosaic, StencilIdx(mosaicWidth, x, y).S)
             zE == Element(mosaic, StencilIdx(mosaicWidth, x, y).E)
             zW == Element(mosaic, StencilIdx(mosaicWidth, x, y).W)
         IN  IF IsNoData(zN, zS, zE, zW)
             THEN [slope |-> 0, rgba |-> <<0, 0, 0, 0>>]
             ELSE LET s == slopeDeg(zN, zS, zE, zW, cellX, cellY)
                  IN  [slope |-> s, rgba |-> ColorOf(s) \o <<210>>]

\* What the slope loop leaves at every pixel, in index order.
SlopeLoop(mosaic, r) ==
    LET mosaicWidth == MosaicWidth(r)
        mosaicHeight == MosaicHeight(r)
        cellX == cellSizeX(r)
        cellY == cellSizeY(r)
    IN  Flatten([i \in 1 .. Len(mosaic) |->
                    <<SlopePixel(mosaic, mosaicWidth, mosaicHeight, cellX,
                                 cellY, (i - 1) % mosaicWidth,
                                 (i - 1) \div mosaicWidth)>>])

\* slopeData and rgbaData after the slope loop.
SlopeOf(pixels) == [i \in 1 .. Len(pixels) |-> pixels[i].slope]
RgbaOf(pixels) == Flatten([i \in 1 .. Len(pixels) |-> pixels[i].rgba])

\* ------------------------------------------------------------------------
\* Clipping to the geometry
\* ------------------------------------------------------------------------

\* Every ring drawRing is called with, in call order.
RingsDrawn(fs) ==
    Flatten([i \in 1 .. Len(fs) |->
                IF fs[i].geometry.type = "Polygon"
                THEN fs[i].geometry.coordinates
                ELSE IF fs[i].geometry.type = "MultiPolygon"
                THEN Flatten(fs[i].geometry.coordinates)
                ELSE <<>>])

\* lngToX(lng) and latToY(lat) in canvas pixels, times 2 * (mosaicEast -
\* mosaicWest) and 2 * (mosaicNorth - mosaicSouth): integers, with the centre
\* of pixel column x at (2 * x + 1) * (mosaicEast - mosaicWest).  b are the
\* mosaic bounds, w and h the mosaic width and height.
lngToX(lng, b, w) == (lng - b.west) * w * 2
latToY(lat, b, h) == (b.north - lat) * h * 2
CentreX(x, b) == (2 * x + 1) * (b.east - b.west)
CentreY(y, b) == (2 * y + 1) * (b.north - b.south)

\* The subpath drawRing adds: moveTo the first pair, lineTo the others,
\* closePath.  Its edges, as <<from, to>> pairs of canvas points.
RingEdges(coords, b, w, h) ==
    LET pt(i) == <<lngToX(coords[i][1], b, w), latToY(coords[i][2], b, h)>>
    IN  [i \in 1 .. Len(coords) |->
            <<pt(i), pt(IF i = Len(coords) THEN 1 ELSE i + 1)>>]

IsLeft(a, b, p) ==
    (b[1] - a[1]) * (p[2] - a[2]) - (p[1] - a[1]) * (b[2] - a[2])

\* The winding number of a path around p: the sum of those of its subpaths.
Winding(edges, p) ==
    Cardinality({i \in DOMAIN edges :
                    /\ edges[i][1][2] <= p[2]
                    /\ edges[i][2][2] > p[2]
                    /\ IsLeft(edges[i][1], edges[i][2], p) > 0})
        - Cardinality({i \in DOMAIN edges :
                          /\ edges[i][1][2] > p[2]
                          /\ edges[i][2][2] <= p[2]
                          /\ IsLeft(edges[i][1], edges[i][2], p) < 0})

\* The edges of the path of all rings, in drawing order.
PathEdges(fs, b, w, h) ==
    LET rings == RingsDrawn(fs)
    IN  Flatten([k \in 1 .. Len(rings) |-> RingEdges(rings[k], b, w, h)])

FilledEvenOdd(edges, b, x, y) ==
    Winding(edges, <<CentreX(x, b), CentreY(y, b)>>) % 2 /= 0

\* ctx.fill() of the path (non-zero winding rule), sampled at the centre of
\* pixel (x, y).
Filled(edges, b, x, y) ==
    Winding(edges, <<CentreX(x, b), CentreY(y, b)>>) /= 0

ClipSourceIn(rgba, fs, r) ==
    LET b == MosaicBounds(r)
        w == MosaicWidth(r)
        edges == PathEdges(fs, b, w, MosaicHeight(r))
    IN  Flatten([i \in 1 .. Len(rgba) \div 4 |->
                    IF Filled(edges, b, (i - 1) % w, (i - 1) \div w)
                    THEN <<0, 0, 0, rgba[4 * i]>>
                    ELSE <<0, 0, 0, 0>>])

\* The canvas after putImageData and the 'destination-in' fill: a pixel the
\* fill covers keeps its four bytes, any other pixel is cleared.
Clip(rgba, fs, r) ==
    LET b == MosaicBounds(r)
        w == MosaicWidth(r)
        edges == PathEdges(fs, b, w, MosaicHeight(r))
    IN  Flatten([i \in 1 .. Len(rgba) \div 4 |->
                    IF Filled(edges, b, (i - 1) % w, (i - 1) \div w)
                    THEN SubSeq(rgba, 4 * i - 3, 4 * i)
                    ELSE <<0, 0, 0, 0>>])

\* ------------------------------------------------------------------------
\* The analysis of one feature collection
\* ------------------------------------------------------------------------

\* The function after `await Promise.all(...)`.
Continue(tb) ==
    LET r == TheValue(range)
        validTiles == SelectSeq(tb, IsValidTile)
    IN  /\ tileBuffers' = tb
        /\ IF NoValidTile(validTiles, tb)
           THEN /\ thrown' = "Could not download any elevation data."
                /\ UNCHANGED <<mosaicData, slopeData, rgbaData, resultImage,
                               geoData, status, statusMessage, mapImages>>
           ELSE LET mosaic == Stitch(validTiles, r)
                    pixels == SlopeLoop(mosaic, r)
                IN  /\ mosaicData' = mosaic
                    /\ slopeData' = SlopeOf(pixels)
                    /\ rgbaData' = RgbaOf(pixels)
                    /\ mapImages' = mapImages \cup {1}
                    /\ resultImage' = Some(1)
                    /\ geoData' = Some(GeoDataOf(r, Clip(rgbaData', features, r),
                                                 slopeData'))
                    /\ status' = "done"
                    /\ statusMessage' = "Analysis Complete."
                    /\ UNCHANGED thrown

\* One fetch of the batch resolves.  The resolution that resolves Promise.all
\* runs the rest of the function.
FetchResolve(i, tile) ==
    /\ tileBuffers[i].state = "pending"
    /\ LET tb == [tileBuffers EXCEPT ![i] = tile]
       IN  IF BatchResolved(tb)
           THEN Continue(tb)
           ELSE /\ tileBuffers' = tb
                /\ UNCHANGED <<mosaicData, slopeData, rgbaData, thrown,
                               resultImage, geoData, status, statusMessage,
                               mapImages>>
    /\ UNCHANGED <<features, range, kmlLayer, drawMode, drawnFeatures, tempPoints,
                   drawingLayer, mapKml, requests, tileVars>>

FetchOutcomes(t) == {FetchedNull(t)} \cup {FetchedTile(t, ra) : ra \in Rasters}

\* ------------------------------------------------------------------------
\* The tile math applied to inputs
\* ------------------------------------------------------------------------

\* The image bounds of the overlay and the geoData fields an analysis of the
\* query box `bounds` publishes.
PublishedOfQuery(bounds) ==
    [imageBounds |-> bounds,
     north |-> bounds.north,
     west |-> bounds.west,
     pixelW |-> <<bounds.east - bounds.west, MosaicWidth(TileRange(bounds))>>,
     pixelH |-> <<bounds.north - bounds.south,
                  MosaicHeight(TileRange(bounds))>>]

Published(bounds) ==
    [imageBounds |-> MosaicBounds(TileRange(bounds)),
     north |-> MosaicBounds(TileRange(bounds)).north,
     west |-> MosaicBounds(TileRange(bounds)).west,
     pixelW |-> degPerPixelX(TileRange(bounds)),
     pixelH |-> degPerPixelY(TileRange(bounds))]

\* Inputs: a longitude or a latitude of the window with a zoom, or two query
\* boxes at TILE_ZOOM whose sides lie on and next to tile edges.
TileZooms == {TILE_ZOOM - 2, TILE_ZOOM - 1, TILE_ZOOM}
WindowLngs ==
    tile2lng(FirstCol, TILE_ZOOM) - 2 .. tile2lng(LastCol + 1, TILE_ZOOM) - 1
WindowLats ==
    EdgeLat10[LastRow + 1] \div 10 + 1 .. EdgeLat10[FirstRow] \div 10
BoxLngs ==
    UNION {{e - 1, e, e + 1, e + 22} :
               e \in {tile2lng(x, TILE_ZOOM) : x \in FirstCol .. LastCol - 1}}
BoxLats ==
    UNION {{n - 1, n, n + 1, n - 15} :
               n \in {tile2lat(y, TILE_ZOOM) : y \in FirstRow + 1 .. LastRow}}
Boxes ==
    {[north |-> n, south |-> s, east |-> e, west |-> w] :
         n \in BoxLats, s \in BoxLats, e \in BoxLngs, w \in BoxLngs}
IsBox(b) == b.south <= b.north /\ b.west <= b.east
\* A second box: the first with one side, or every side, moved inward a step.
Steps ==
    {[north |-> n, south |-> s, east |-> e, west |-> w] :
         n \in {0, 1}, s \in {0, 1}, e \in {0, 1}, w \in {0, 1}}
Moves == {m \in Steps : m.north + m.south + m.east + m.west \in {0, 1, 4}}
Moved(b, m) ==
    [north |-> b.north - m.north, south |-> b.south + m.south,
     east |-> b.east - m.east, west |-> b.west + m.west]
NoBox == [north |-> 0, south |-> 0, east |-> 0, west |-> 0]

TileInputs ==
    {[kind |-> "lng", zoom |-> z, value |-> v, box |-> NoBox, other |-> NoBox] :
         z \in TileZooms, v \in WindowLngs}
    \cup
    {[kind |-> "lat", zoom |-> z, value |-> v, box |-> NoBox, other |-> NoBox] :
         z \in TileZooms, v \in WindowLats}
    \cup
    {[kind |-> "box", zoom |-> TILE_ZOOM, value |-> 0, box |-> b,
      other |-> IF IsBox(Moved(b, m)) THEN Moved(b, m) ELSE b] :
         b \in {bb \in Boxes : IsBox(bb)}, m \in Moves}

ApplyLng ==
    /\ tileIn /= Null /\ tileOut = Null
    /\ TheValue(tileIn).kind = "lng"
    /\ LET lon == TheValue(tileIn).value
           z == TheValue(tileIn).zoom
           x == lng2tile(lon, z)
       IN  tileOut' = Some([x |-> x,
                            west |-> tile2lng(x, z),
                            east |-> tile2lng(x + 1, z),
                            corner |-> lng2tile(tile2lng(x, z), z)])
    /\ UNCHANGED <<tileIn, appVars, analysisVars>>

ApplyLat ==
    /\ tileIn /= Null /\ tileOut = Null
    /\ TheValue(tileIn).kind = "lat"
    /\ LET lat == TheValue(tileIn).value
           z == TheValue(tileIn).zoom
           y == lat2tile(lat, z)
       IN  tileOut' = Some([y |-> y,
                            north |-> tile2lat(y, z),
                            south |-> tile2lat(y + 1, z),
                            corner |-> lat2tile(tile2lat(y, z), z)])
    /\ UNCHANGED <<tileIn, appVars, analysisVars>>

ApplyBoxes ==
    /\ tileIn /= Null /\ tileOut = Null
    /\ TheValue(tileIn).kind = "box"
    /\ LET b == TheValue(tileIn).box
           o == TheValue(tileIn).other
       IN  tileOut' = Some([range |-> TileRange(b),
                            published |-> Published(b),
                            otherRange |-> TileRange(o),
                            otherPublished |-> Published(o)])
    /\ UNCHANGED <<tileIn, appVars, analysisVars>>

\* ------------------------------------------------------------------------
\* The App specification: uploads, drawn polygons and their analyses
\* ------------------------------------------------------------------------

InitApp ==
    /\ status = "idle"
    /\ statusMessage = ""
    /\ kmlLayer = Null
    /\ resultImage = Null
    /\ geoData = Null
    /\ drawMode = "null"
    /\ drawnFeatures = <<>>
    /\ tempPoints = <<>>
    /\ drawingLayer = <<>>
    /\ mapKml = {}
    /\ mapImages = {}
    /\ requests = <<>>

\* No sample-level analysis is running.
NoAnalysis ==
    /\ features = <<>>
    /\ range = Null
    /\ tileBuffers = <<>>
    /\ mosaicData = <<>>
    /\ slopeData = <<>>
    /\ rgbaData = <<>>
    /\ thrown = ""

NoTileInput ==
    /\ tileIn = Null
    /\ tileOut = Null

Init == InitApp /\ NoAnalysis /\ NoTileInput

Next ==
    \/ HandleFileSelectNoFile
    \/ \E file \in Files : HandleFileSelect(file)
    \/ \E rid \in DOMAIN requests : ParseResolve(rid)
    \/ \E rid \in DOMAIN requests :
           \E i \in DOMAIN requests[rid].tileBuffers :
               \E ok \in BOOLEAN : TileResolve(rid, i, ok)
    \/ SetDrawMode("polygon")
    \/ Cancel
    \/ OnClick(PointA)
    \/ FinishDrawing

Spec == Init /\ [][Next]_vars

\* ------------------------------------------------------------------------
\* The drawing specification: a session of drawing in the three draw modes,
\* or a session of uploads, with the analyses they start
\* ------------------------------------------------------------------------

DrawModes == {"polygon", "line", "point"}

\* No file has been selected so far.
DrawSession == \A rid \in DOMAIN requests : requests[rid].kind = "draw"

\* Nothing has been drawn so far.
UploadSession ==
    /\ drawMode = "null"
    /\ tempPoints = <<>>
    /\ drawnFeatures = <<>>
    /\ \A rid \in DOMAIN requests : requests[rid].kind = "upload"

\* The clicks of a drawing go around a path of distinct points in one tile.
ClickPath == <<PointA, InnerNE, InnerSE, InnerSW, PointE>>
NextClick == ClickPath[(Len(tempPoints) % Len(ClickPath)) + 1]

NextDraw ==
    \/ DrawSession /\ \E mode \in DrawModes : SetDrawMode(mode)
    \/ DrawSession /\ Cancel
    \/ DrawSession /\ OnClick(NextClick)
    \/ DrawSession /\ FinishDrawing
    \/ UploadSession /\ \E file \in Files : HandleFileSelect(file)
    \/ \E rid \in DOMAIN requests : ParseResolve(rid)
    \/ \E rid \in DOMAIN requests :
           \E i \in DOMAIN requests[rid].tileBuffers :
               \E ok \in BOOLEAN : TileResolve(rid, i, ok)

SpecDraw == Init /\ [][NextDraw]_vars

\* ------------------------------------------------------------------------
\* The sequential specification: uploads and drawn polygons, each analysis run
\* to its end before the next one is started
\* ------------------------------------------------------------------------

\* Every request so far has ended, with a result or with an error.
AllEnded ==
    \A rid \in DOMAIN requests : requests[rid].pc \in {"done", "failed"}

NextSequential ==
    \/ AllEnded /\ \E file \in Files : HandleFileSelect(file)
    \/ \E rid \in DOMAIN requests : ParseResolve(rid)
    \/ \E rid \in DOMAIN requests :
           \E i \in DOMAIN requests[rid].tileBuffers :
               \E ok \in BOOLEAN : TileResolve(rid, i, ok)
    \/ AllEnded /\ SetDrawMode("polygon")
    \/ AllEnded /\ OnClick(NextClick)
    \/ AllEnded /\ FinishDrawing

SpecSequential == Init /\ [][NextSequential]_vars

\* ------------------------------------------------------------------------
\* The analysis specification: one call of performTerrainAnalysis from
\* handleFileSelect, on each of a few feature collections
\* ------------------------------------------------------------------------

AnalysisInputs == {<<QuadABDC>>, <<TriangleACE>>, <<PolyAB>>}

InitAnalysis ==
    /\ features \in AnalysisInputs
    /\ range = Some(TileRange(GetBounds(features)))
    /\ tileBuffers =
           [i \in 1 .. Len(TilesToFetch(TheValue(range))) |->
               Pending(TilesToFetch(TheValue(range))[i])]
    /\ mosaicData = <<>>
    /\ slopeData = <<>>
    /\ rgbaData = <<>>
    /\ thrown = ""
    /\ status = "processing"
    /\ statusMessage = FetchingMessage(TheValue(range))
    /\ kmlLayer = Some(1)
    /\ resultImage = Null
    /\ geoData = Null
    /\ drawMode = "null"
    /\ drawnFeatures = <<>>
    /\ tempPoints = <<>>
    /\ drawingLayer = <<>>
    /\ mapKml = {1}
    /\ mapImages = {}
    /\ requests = <<>>
    /\ NoTileInput

NextAnalysis ==
    \E i \in DOMAIN tileBuffers :
        \E tile \in FetchOutcomes(tileBuffers[i]) : FetchResolve(i, tile)

SpecAnalysis == InitAnalysis /\ [][NextAnalysis]_vars

\* ------------------------------------------------------------------------
\* The clip specification: one call of performTerrainAnalysis on polygons
\* that cover a part of the mosaic, with and without an inner ring
\* ------------------------------------------------------------------------

TriangleABC == Feature("Polygon", <<RingOf(<<PointA, PointB, PointC, PointA>>)>>)
\* The quadrilateral with the square as a second ring, the square's vertices
\* in the orientation of the outer ring and in the opposite one.
DonutSameOrientation ==
    Feature("Polygon",
            <<RingOf(<<PointA, PointB, PointD, PointC, PointA>>),
              RingOf(<<InnerNW, InnerNE, InnerSE, InnerSW, InnerNW>>)>>)
DonutOppositeOrientation ==
    Feature("Polygon",
            <<RingOf(<<PointA, PointB, PointD, PointC, PointA>>),
              RingOf(<<InnerNW, InnerSW, InnerSE, InnerNE, InnerNW>>)>>)

ClipInputs ==
    {<<TriangleABC>>, <<DonutSameOrientation>>, <<DonutOppositeOrientation>>}

InitClip ==
    /\ features \in ClipInputs
    /\ range = Some(TileRange(GetBounds(features)))
    /\ tileBuffers =
           [i \in 1 .. Len(TilesToFetch(TheValue(range))) |->
               Pending(TilesToFetch(TheValue(range))[i])]
    /\ mosaicData = <<>>
    /\ slopeData = <<>>
    /\ rgbaData = <<>>
    /\ thrown = ""
    /\ status = "processing"
    /\ statusMessage = FetchingMessage(TheValue(range))
    /\ kmlLayer = Some(1)
    /\ resultImage = Null
    /\ geoData = Null
    /\ drawMode = "null"
    /\ drawnFeatures = <<>>
    /\ tempPoints = <<>>
    /\ drawingLayer = <<>>
    /\ mapKml = {1}
    /\ mapImages = {}
    /\ requests = <<>>
    /\ NoTileInput

\* The fetches resolve to level ground, to peaks or to level ground with a
\* void sample.
ClipOutcomes(t) ==
    {FetchedTile(t, ra) :
         ra \in {r \in Rasters : r.name \in {"level", "peaks"} \/ r.at = 1}}

NextClip ==
    \E i \in DOMAIN tileBuffers :
        \E tile \in ClipOutcomes(tileBuffers[i]) : FetchResolve(i, tile)

SpecClip == InitClip /\ [][NextClip]_vars

\* ------------------------------------------------------------------------
\* The tile math specification
\* ------------------------------------------------------------------------

InitTile ==
    /\ InitApp
    /\ NoAnalysis
    /\ tileIn \in {Some(i) : i \in TileInputs}
    /\ tileOut = Null

NextTile == ApplyLng \/ ApplyLat \/ ApplyBoxes

SpecTile == InitTile /\ [][NextTile]_vars

\* ------------------------------------------------------------------------
\* The slope loop specification: the body of the loop at the centre pixel of a
\* mosaic of three by three samples
\* ------------------------------------------------------------------------

\* Elevation differences whose rise over run, at a cell size of 500 m, lies
\* just below and on (the first of each pair) and just above (the second) the
\* tangent of a breakpoint of SLOPE_RANGES, in thousandths.
BreakpointRises ==
    {34, 35, 87, 88, 158, 159, 267, 268, 363, 364, 466, 467, 577, 578, 700,
     701, 1000, 1001}

\* The elevations around the centre pixel, the pixel's own elevation and the
\* cell sizes in metres.
StencilInputs ==
    {[kind |-> "stencil", zN |-> n, zS |-> 0, zE |-> e, zW |-> w, z |-> z,
      cellX |-> 500, cellY |-> 500] :
         n \in {0, 20, 500}, e \in BreakpointRises \cup {0, 30000},
         w \in {0, VoidElevation}, z \in {0, VoidElevation}}

\* The mosaic of the input, row-major from the north-west.
StencilMosaic(in) == <<0, in.zN, 0, in.zW, in.z, in.zE, 0, in.zS, 0>>

\* One pass of the loop body, at x = 1, y = 1 of the mosaic of the input.
ApplyStencil ==
    /\ tileIn /= Null /\ tileOut = Null
    /\ TheValue(tileIn).kind = "stencil"
    /\ LET in == TheValue(tileIn)
       IN  tileOut' = Some(SlopePixel(StencilMosaic(in), 3, 3, in.cellX,
                                      in.cellY, 1, 1))
    /\ UNCHANGED <<tileIn, appVars, analysisVars>>

InitPixel ==
    /\ InitApp
    /\ NoAnalysis
    /\ tileIn \in {Some(i) : i \in StencilInputs}
    /\ tileOut = Null

NextPixel == ApplyStencil

SpecPixel == InitPixel /\ [][NextPixel]_vars

\* ------------------------------------------------------------------------
\* The drawn-geometry export specification: generateKML on one list of
\* features
\* ------------------------------------------------------------------------

\* Features of every geometry type, polygons of one and of two rings.
MaxShapes == 3
KmlFeatures ==
    {PointFeatureA, LineAB, TriangleABC, DonutOppositeOrientation, MultiAB}
RECURSIVE SeqsUpTo(_, _)
SeqsUpTo(S, n) ==
    IF n = 0 THEN {<<>>}
    ELSE LET shorter == SeqsUpTo(S, n - 1)
         IN  shorter \cup {Append(q, e) : q \in shorter, e \in S}
KmlInputs == {[kind |-> "kml", features |-> fs] : fs \in SeqsUpTo(KmlFeatures, MaxShapes)}

ApplyGenerateKML ==
    /\ tileIn /= Null /\ tileOut = Null
    /\ TheValue(tileIn).kind = "kml"
    /\ tileOut' = Some([kml |-> generateKML(TheValue(tileIn).features),
                        download |-> handleDownloadKml(TheValue(tileIn).features)])
    /\ UNCHANGED <<tileIn, appVars, analysisVars>>

InitKml ==
    /\ InitApp
    /\ NoAnalysis
    /\ tileIn \in {Some(i) : i \in KmlInputs}
    /\ tileOut = Null

NextKml == ApplyGenerateKML

SpecKml == InitKml /\ [][NextKml]_vars

\* ------------------------------------------------------------------------
\* Claims about the App
\* ------------------------------------------------------------------------

\* The step in which request rid ends with no valid tile.
AllTilesFailed(rid) ==
    /\ requests[rid].pc = "fetching"
    /\ requests'[rid].pc = "failed"

\* C2: whenever an analysis, started by an upload or by a drawn polygon, ends
\* with every tile fetch failed, the status becomes 'error' with a non-empty
\* message.
C2_AggregateFailureSurfaced ==
    [][\A rid \in DOMAIN requests :
           AllTilesFailed(rid) => status' = "error" /\ statusMessage' /= ""]_vars

\* C3: once a newer request has started, a step of an older request
\* publishes no result overlay, does not set geoData and does not set the
\* status to 'done'.
C3_StaleResultDropped ==
    [][\A rid \in DOMAIN requests :
           (rid < Len(requests) /\ requests'[rid] /= requests[rid])
               => /\ mapImages' = mapImages
                  /\ geoData' = geoData
                  /\ (status' = "done" => status = "done")]_vars

\* C4: in every state whose status is 'error' geoData is null, no result
\* image overlay is on the map and the download produces nothing.
C4_ErrorPublishesNothing ==
    status = "error" =>
        /\ geoData = Null
        /\ mapImages = {}
        /\ handleDownload(geoData) = Null

\* The newest request is still running.
NewestRunning ==
    /\ requests /= <<>>
    /\ requests[Len(requests)].pc \in {"parsing", "fetching"}

\* C26: with every analysis run to its end before the next is started, at most
\* one result overlay is on the map in every state: while the newest analysis
\* runs, the overlay of the one before is off the map, and so is the KML
\* outline of the one before (the only outline on the map is the new
\* upload's own); when the newest analysis has completed, its overlay is the
\* one on the map.
C26_AtMostOneOverlay ==
    /\ Cardinality(mapImages) <= 1
    /\ NewestRunning =>
           /\ mapImages = {}
           /\ mapKml \subseteq {Len(requests)}
    /\ (requests /= <<>> /\ requests[Len(requests)].pc = "done") =>
           mapImages = {Len(requests)}

\* C27: in every state whose status is 'done', geoData is set, a result
\* overlay is set, and the two are those of one analysis request, which has
\* completed; and whenever geoData is null handleDownload produces nothing.
C27_ExportOnlyForAResult ==
    /\ status = "done" =>
           /\ geoData /= Null
           /\ resultImage /= Null
           /\ TheValue(geoData).canvas = TheValue(resultImage)
           /\ TheValue(resultImage) \in DOMAIN requests
           /\ requests[TheValue(resultImage)].pc = "done"
           /\ handleDownload(geoData) /= Null
    /\ geoData = Null => handleDownload(geoData) = Null

\* The status is 'done' with the result of an older request while a newer
\* one has already ended.
C27_Witness ==
    /\ status = "done"
    /\ geoData /= Null
    /\ Len(requests) = 2
    /\ TheValue(resultImage) = 1
    /\ requests[2].pc = "failed"

\* ------------------------------------------------------------------------
\* Claims about drawing
\* ------------------------------------------------------------------------

\* finishDrawing finds too few points for the shape of the draw mode.
Degenerate ==
    \/ drawMode = "polygon" /\ Len(tempPoints) < 3
    \/ drawMode = "line" /\ Len(tempPoints) < 2

\* C15: a finishDrawing in polygon mode with fewer than 3 points, or in line
\* mode with fewer than 2, leaves drawnFeatures and the drawing layer as they
\* are, starts no analysis (no request, status and message unchanged, nothing
\* published or removed) and resets the draw mode and the temporary points.
C15_DegenerateDrawingRejected ==
    [][(Degenerate /\ FinishDrawing) =>
           /\ drawnFeatures' = drawnFeatures
           /\ drawingLayer' = drawingLayer
           /\ requests' = requests
           /\ status' = status
           /\ statusMessage' = statusMessage
           /\ <<geoData, resultImage, kmlLayer, mapKml, mapImages>>' =
                  <<geoData, resultImage, kmlLayer, mapKml, mapImages>>
           /\ drawMode' = "null"
           /\ tempPoints' = <<>>]_vars

\* A polygon of two points about to be finished, after a shape has been
\* committed and while the analysis of a drawn polygon is in flight.
C15_Witness ==
    /\ drawMode = "polygon"
    /\ Len(tempPoints) = 2
    /\ drawnFeatures /= <<>>
    /\ status = "processing"

\* The step commits a drawn feature that is no polygon.
CommitsNonPolygon ==
    /\ Len(drawnFeatures') = Len(drawnFeatures) + 1
    /\ drawnFeatures'[Len(drawnFeatures')].geometry.type
           \in {"Point", "LineString"}

\* C16: the feature collection of every analysis holds Polygon and
\* MultiPolygon features only; an analysis started by a drawing holds the
\* polygon just committed and nothing else; and a step that commits a drawn
\* Point or LineString starts no analysis and leaves status, message, geoData
\* and the result overlay as they are.
C16_OnlyPolygonsDriveAnalysis ==
    [][/\ \A rid \in DOMAIN requests' :
              /\ \A i \in DOMAIN requests'[rid].geoJson :
                     requests'[rid].geoJson[i].geometry.type
                         \in {"Polygon", "MultiPolygon"}
              /\ (rid \notin DOMAIN requests /\ requests'[rid].kind = "draw") =>
                     /\ requests'[rid].geoJson =
                            <<drawnFeatures'[Len(drawnFeatures')]>>
                     /\ Len(drawnFeatures') = Len(drawnFeatures) + 1
                     /\ drawMode = "polygon"
       /\ CommitsNonPolygon =>
              /\ requests' = requests
              /\ status' = status
              /\ statusMessage' = statusMessage
              /\ <<geoData, resultImage, mapImages>>' =
                     <<geoData, resultImage, mapImages>>]_vars

\* The analysis of a drawn polygon is in flight and a LineString has been
\* committed after it.
C16_Witness ==
    /\ Len(drawnFeatures) = 2
    /\ drawnFeatures[1].geometry.type = "Polygon"
    /\ drawnFeatures[2].geometry.type = "LineString"
    /\ Len(requests) = 1
    /\ requests[1].pc = "fetching"
    /\ requests[1].geoJson = <<drawnFeatures[1]>>
    /\ status = "processing"

\* The file is read and parsed to a feature collection none of whose features
\* is a Polygon or a MultiPolygon.
NoPolygonFile(file) ==
    /\ ~(file.kmz /\ ~file.kmlInside)
    /\ file.parsed /= Null
    /\ \A i \in DOMAIN TheValue(file.parsed) :
           TheValue(file.parsed)[i].geometry.type
               \notin {"Polygon", "MultiPolygon"}

\* The step in which the handleFileSelect of request rid ends.
UploadEnds(rid) ==
    /\ requests[rid].kind = "upload"
    /\ requests[rid].pc = "parsing"
    /\ requests'[rid] /= requests[rid]

\* C17: the handleFileSelect of a file without a Polygon or MultiPolygon
\* feature ends, straight from parsing, with status 'error' and the message of
\* the error 'No Polygon layer detected'; it has issued no tile fetch, added
\* no KML layer and no result overlay and has not set geoData, which is null
\* when no other request is there to set it.
C17_NoPolygonUploadIsFatal ==
    [][\A rid \in DOMAIN requests :
           (UploadEnds(rid) /\ NoPolygonFile(TheValue(requests[rid].file))) =>
               /\ status' = "error"
               /\ statusMessage' = "Error: " \o "No Polygon layer detected"
               /\ requests'[rid].pc = "failed"
               /\ requests'[rid].tileBuffers = <<>>
               /\ requests'[rid].range = Null
               /\ mapKml' = mapKml /\ rid \notin mapKml'
               /\ kmlLayer' = kmlLayer
               /\ mapImages' = mapImages /\ rid \notin mapImages'
               /\ resultImage' = resultImage
               /\ geoData' = geoData
               /\ Len(requests) = 1 => (geoData' = Null /\ mapImages' = {}
                                            /\ mapKml' = {})]_vars

\* An upload without polygon features has ended in the error, nothing on the
\* map.
C17_Witness ==
    /\ Len(requests) = 1
    /\ requests[1].kind = "upload"
    /\ requests[1].pc = "failed"
    /\ status = "error"
    /\ statusMessage = "Error: No Polygon layer detected"
    /\ geoData = Null
    /\ mapKml = {}
    /\ mapImages = {}

\* finishDrawing finds a polygon of at least three points.
FinishesPolygon ==
    /\ drawMode = "polygon"
    /\ Len(tempPoints) >= 3
    /\ FinishDrawing

\* C24: a finishDrawing in polygon mode with n >= 3 collected points appends
\* exactly one feature to drawnFeatures, a Polygon of one ring of n + 1
\* coordinates, the points in click order as [lng, lat] and the first one
\* again; it starts exactly one analysis, on the collection of that feature
\* alone; and it leaves the draw mode null and the temporary points empty.
C24_FinishedPolygonClosedAndAnalysed ==
    [][FinishesPolygon =>
           LET n == Len(tempPoints)
               added == drawnFeatures'[Len(drawnFeatures')]
               ring == added.geometry.coordinates[1]
               started == requests'[Len(requests')]
           IN  /\ Len(drawnFeatures') = Len(drawnFeatures) + 1
               /\ SubSeq(drawnFeatures', 1, Len(drawnFeatures)) = drawnFeatures
               /\ added.geometry.type = "Polygon"
               /\ Len(added.geometry.coordinates) = 1
               /\ Len(ring) = n + 1
               /\ \A k \in 1 .. n :
                      ring[k] = <<tempPoints[k].lng, tempPoints[k].lat>>
               /\ ring[n + 1] = ring[1]
               /\ Len(requests') = Len(requests) + 1
               /\ SubSeq(requests', 1, Len(requests)) = requests
               /\ started.kind = "draw"
               /\ started.pc = "fetching"
               /\ started.geoJson = <<added>>
               /\ status' = "processing"
               /\ drawMode' = "null"
               /\ tempPoints' = <<>>]_vars

\* A polygon of three distinct points has been committed after another shape
\* and its analysis is in flight.
C24_Witness ==
    /\ Len(drawnFeatures) = 2
    /\ drawnFeatures[2].geometry.type = "Polygon"
    /\ drawnFeatures[2].geometry.coordinates[1]
           = RingOf(<<PointA, InnerNE, InnerSE, PointA>>)
    /\ requests /= <<>>
    /\ requests[Len(requests)].geoJson = <<drawnFeatures[2]>>
    /\ requests[Len(requests)].pc = "fetching"
    /\ drawMode = "null"
    /\ tempPoints = <<>>

\* The step is handleFileSelect with a file: it starts an upload.
SelectsFile ==
    /\ Len(requests') = Len(requests) + 1
    /\ requests'[Len(requests')].kind = "upload"

\* The step is a later step of an upload: its parse or one of its fetches
\* resolves, and with it the upload may succeed or fail.
UploadProceeds ==
    \E rid \in DOMAIN requests :
        /\ requests[rid].kind = "upload"
        /\ requests'[rid] /= requests[rid]

\* The step commits a drawn shape.
CommitsShape ==
    /\ Len(drawnFeatures') = Len(drawnFeatures) + 1
    /\ SubSeq(drawnFeatures', 1, Len(drawnFeatures)) = drawnFeatures
    /\ drawMode /= "null"
    /\ drawMode' = "null"

\* C25: handleFileSelect with a file leaves drawnFeatures empty and the
\* drawing layer without layers; no later step of the upload, to success or
\* to failure, changes either; with drawnFeatures empty handleDownloadKml
\* produces nothing, and drawnFeatures stays empty until a step that commits a
\* new shape.
C25_UploadClearsDrawnShapes ==
    [][/\ SelectsFile =>
              /\ drawnFeatures' = <<>>
              /\ drawingLayer' = <<>>
              /\ handleDownloadKml(drawnFeatures') = Null
       /\ UploadProceeds =>
              /\ drawnFeatures' = drawnFeatures
              /\ drawingLayer' = drawingLayer
       /\ (drawnFeatures = <<>> /\ ~CommitsShape) =>
              /\ drawnFeatures' = <<>>
              /\ handleDownloadKml(drawnFeatures') = Null]_vars

\* A polygon was drawn and analysed, a file was selected after it and its
\* upload has ended: nothing drawn is left.
C25_Witness ==
    /\ Len(requests) = 2
    /\ requests[1].kind = "draw"
    /\ requests[2].kind = "upload"
    /\ requests[2].pc \in {"done", "failed"}
    /\ drawnFeatures = <<>>
    /\ drawingLayer = <<>>
    /\ handleDownloadKml(drawnFeatures) = Null

\* C28: in every state whose draw mode is null the list of temporary points
\* is empty, for any sequence of mode selections, clicks, finishes and
\* cancels.
C28_NoLeftoverPoints ==
    drawMode = "null" => tempPoints = <<>>

\* ------------------------------------------------------------------------
\* Claims about the analysis
\* ------------------------------------------------------------------------

\* The tile entries that resolved to a tile, and those that resolved to null.
Succeeded == {i \in DOMAIN tileBuffers : tileBuffers[i].state = "tile"}
Failed == {i \in DOMAIN tileBuffers : tileBuffers[i].state = "null"}
StillPending == {i \in DOMAIN tileBuffers : tileBuffers[i].state = "pending"}

\* The extent of the requested tile range in samples.
ExtentWidth == (TheValue(range).xMax - TheValue(range).xMin + 1) * TILE_SIZE
ExtentHeight == (TheValue(range).yMax - TheValue(range).yMin + 1) * TILE_SIZE

\* The mosaic sample at column col and row row of the sub-rectangle of tile
\* entry i.
MosaicSample(i, row, col) ==
    mosaicData[((tileBuffers[i].y - TheValue(range).yMin) * TILE_SIZE + row)
                   * ExtentWidth
               + (tileBuffers[i].x - TheValue(range).xMin) * TILE_SIZE + col
               + 1]

\* C1: once every fetch of a request has resolved: if at least one tile
\* succeeded the analysis completes without an error, the mosaic has the
\* full extent of the requested range, every sample of the sub-rectangle of a
\* failed tile is 0 and every sample of a succeeded tile is that tile's
\* sample; if none succeeded the 'no elevation data' error is thrown and no
\* mosaic is allocated.
C1_PartialTileFailureTolerated ==
    (range /= Null /\ StillPending = {}) =>
        IF Succeeded = {}
        THEN /\ thrown = "Could not download any elevation data."
             /\ mosaicData = <<>>
             /\ status /= "done"
        ELSE /\ thrown = ""
             /\ status = "done"
             /\ Len(mosaicData) = ExtentWidth * ExtentHeight
             /\ \A i \in DOMAIN tileBuffers :
                    \A row \in 0 .. TILE_SIZE - 1 :
                        \A col \in 0 .. TILE_SIZE - 1 :
                            MosaicSample(i, row, col) =
                                IF i \in Succeeded
                                THEN tileBuffers[i].data[row * TILE_SIZE + col + 1]
                                ELSE 0

\* A request of several tiles completed with some failed and some succeeded.
C1_Witness ==
    /\ range /= Null
    /\ StillPending = {}
    /\ Succeeded /= {}
    /\ Failed /= {}
    /\ status = "done"
    /\ \E i \in Succeeded : \E k \in DOMAIN tileBuffers[i].data :
           tileBuffers[i].data[k] /= 0

\* C5: every tile of the request has its fetch in flight from the start, and
\* while any fetch of the request has not resolved the request stays in the
\* fetching stage: no mosaic, slope or colour buffer is allocated, nothing is
\* clipped or published and no error is thrown.
C5_FanOutFanIn ==
    range /= Null =>
        /\ Len(tileBuffers) = Len(TilesToFetch(TheValue(range)))
        /\ StillPending /= {} =>
               /\ mosaicData = <<>>
               /\ slopeData = <<>>
               /\ rgbaData = <<>>
               /\ geoData = Null
               /\ resultImage = Null
               /\ thrown = ""
               /\ status = "processing"

\* All fetches but one have resolved, some to a tile.
C5_Witness ==
    /\ range /= Null
    /\ Cardinality(StillPending) = 1
    /\ Succeeded /= {}
    /\ Failed /= {}
    /\ mosaicData = <<>>

\* The mosaic indices the copy of tile entry i writes.
WriteSet(i) ==
    {WriteIdx(tileBuffers[i], TheValue(range), k) :
         k \in 0 .. TILE_SIZE * TILE_SIZE - 1}

\* The succeeded tiles in the order of a permutation p of their indices.
InOrder(p) ==
    LET validTiles == SelectSeq(tileBuffers, IsValidTile)
    IN  [k \in 1 .. Len(validTiles) |-> validTiles[p[k]]]

\* C6: the index sets written for two distinct succeeded tiles of a request
\* are disjoint, every written index is in [0, mosaicWidth * mosaicHeight),
\* and stitching the succeeded tiles in any order gives the same mosaic, the
\* one the analysis builds.
C6_TileWritesDisjoint ==
    range /= Null =>
        /\ \A i \in Succeeded : \A j \in Succeeded :
               i /= j => WriteSet(i) \cap WriteSet(j) = {}
        /\ \A i \in Succeeded :
               WriteSet(i) \subseteq 0 .. ExtentWidth * ExtentHeight - 1
        /\ \A p \in Permutations(1 .. Cardinality(Succeeded)) :
               Stitch(InOrder(p), TheValue(range)) =
                   Stitch(SelectSeq(tileBuffers, IsValidTile), TheValue(range))
        /\ mosaicData /= <<>> =>
               mosaicData =
                   Stitch(SelectSeq(tileBuffers, IsValidTile), TheValue(range))

\* A mosaic stitched from tiles of two rows and two columns.
C6_Witness ==
    /\ range /= Null
    /\ mosaicData /= <<>>
    /\ \E i \in Succeeded : \E j \in Succeeded :
           /\ tileBuffers[i].x /= tileBuffers[j].x
           /\ tileBuffers[i].y /= tileBuffers[j].y
           /\ tileBuffers[i].data /= tileBuffers[j].data

\* C7: for a request that reached stitching, the elevation, slope and RGBA
\* buffers have lengths width * height, width * height and 4 * width * height
\* for width = (xMax - xMin + 1) * TILE_SIZE and height = (yMax - yMin + 1) *
\* TILE_SIZE, and geoData publishes this width and height.
C7_MosaicSize ==
    mosaicData /= <<>> =>
        /\ Len(mosaicData) = ExtentWidth * ExtentHeight
        /\ Len(slopeData) = ExtentWidth * ExtentHeight
        /\ Len(rgbaData) = 4 * ExtentWidth * ExtentHeight
        /\ geoData /= Null
        /\ TheValue(geoData).width = ExtentWidth
        /\ TheValue(geoData).height = ExtentHeight
        /\ Len(TheValue(geoData).rawSlope) = ExtentWidth * ExtentHeight
        /\ Len(TheValue(geoData).canvas) = 4 * ExtentWidth * ExtentHeight

\* A stitched mosaic wider than high, and not of a single tile.
C7_Witness ==
    /\ mosaicData /= <<>>
    /\ ExtentWidth > ExtentHeight
    /\ ExtentHeight = TILE_SIZE

\* The interior pixels of the mosaic, as <<x, y>>.
Interior ==
    {p \in (1 .. ExtentWidth - 2) \X (1 .. ExtentHeight - 2) : TRUE}

\* The elevations of the four neighbours of pixel p.
Neighbours(p) ==
    {Element(mosaicData, (p[2] - 1) * ExtentWidth + p[1]),
     Element(mosaicData, (p[2] + 1) * ExtentWidth + p[1]),
     Element(mosaicData, p[2] * ExtentWidth + p[1] + 1),
     Element(mosaicData, p[2] * ExtentWidth + p[1] - 1)}

\* C10: an interior pixel with a neighbour elevation below -10000 has slope 0
\* and its four RGBA bytes 0, in the buffers of the slope loop and on the
\* canvas.
C10_NodataPropagation ==
    mosaicData /= <<>> =>
        \A p \in Interior :
            (\E z \in Neighbours(p) : z < -10000) =>
                LET idx == p[2] * ExtentWidth + p[1]
                IN  /\ Element(slopeData, idx) = 0
                    /\ \A c \in 0 .. 3 :
                           /\ Element(rgbaData, idx * 4 + c) = 0
                           /\ Element(TheValue(geoData).canvas, idx * 4 + c) = 0

\* An interior pixel whose east or west neighbour alone is void, itself and
\* the other neighbours not, beside an interior pixel that was coloured.
C10_Witness ==
    /\ mosaicData /= <<>>
    /\ \E p \in Interior :
           /\ Element(mosaicData, p[2] * ExtentWidth + p[1] + 1) < -10000
           /\ Element(mosaicData, (p[2] - 1) * ExtentWidth + p[1]) >= -10000
           /\ Element(mosaicData, (p[2] + 1) * ExtentWidth + p[1]) >= -10000
           /\ Element(mosaicData, p[2] * ExtentWidth + p[1]) > 0
    /\ \E q \in Interior :
           Element(rgbaData, (q[2] * ExtentWidth + q[1]) * 4 + 3) = 210

\* The mosaic holds the same elevation, not a void one, at every sample.
IsFlat ==
    /\ mosaicData /= <<>>
    /\ \A i \in DOMAIN mosaicData : mosaicData[i] = mosaicData[1]
    /\ mosaicData[1] >= -10000

\* C12: in a mosaic of one constant elevation every interior pixel has slope
\* 0 and the colour of the first class, '#2ecc71', at alpha 210.
C12_FlatTerrainZeroSlope ==
    IsFlat =>
        \A p \in Interior :
            LET idx == p[2] * ExtentWidth + p[1]
            IN  /\ Element(slopeData, idx) = 0
                /\ SubSeq(rgbaData, idx * 4 + 1, idx * 4 + 4) =
                       <<46, 204, 113, 210>>

\* A flat mosaic above sea level with interior pixels.
C12_Witness ==
    /\ IsFlat
    /\ mosaicData[1] > 0
    /\ Interior /= {}
    /\ status = "done"

\* The rise of the mosaic from one column to the next, and the mosaic is a
\* ramp: every sample is the first one plus the rise times its column.
RampRise == mosaicData[2] - mosaicData[1]
IsRamp ==
    /\ mosaicData /= <<>>
    /\ RampRise /= 0
    /\ \A i \in DOMAIN mosaicData :
           /\ mosaicData[i] = mosaicData[1] + RampRise * ((i - 1) % ExtentWidth)
           /\ mosaicData[i] >= -10000

\* The rise over run (zE - zW) / (2 * cellSizeX) of the ramp, squared, in
\* millionths.
RampRiseRunSq ==
    LET q == (Abs(2 * RampRise) * 1000) \div (2 * cellSizeX(TheValue(range)))
    IN  q * q

\* C13: in a mosaic that is an east-west ramp every interior pixel has the
\* same slope, the angle whose tangent is the rise over run of the ramp (in
\* whole degrees rounded up: the tangent of the slope is at least the rise
\* over run, that of one degree less is below it), and so the same colour.
C13_RampPositionIndependent ==
    IsRamp =>
        \A p \in Interior : \A q \in Interior :
            LET idx == p[2] * ExtentWidth + p[1]
                jdx == q[2] * ExtentWidth + q[1]
                s == Element(slopeData, idx)
            IN  /\ s = Element(slopeData, jdx)
                /\ s \in 1 .. 88
                /\ TanSqE6[s] < RampRiseRunSq
                /\ RampRiseRunSq <= TanSqE6[s + 1]
                /\ SubSeq(rgbaData, idx * 4 + 1, idx * 4 + 4) =
                       SubSeq(rgbaData, jdx * 4 + 1, jdx * 4 + 4)
                /\ Element(rgbaData, idx * 4 + 3) = 210

\* A ramp with interior pixels in different rows and columns.
C13_Witness ==
    /\ IsRamp
    /\ status = "done"
    /\ \E p \in Interior : \E q \in Interior : p[1] /= q[1] /\ p[2] /= q[2]

\* The pixels of the outermost border of the mosaic, as <<x, y>>.
Border ==
    {p \in (0 .. ExtentWidth - 1) \X (0 .. ExtentHeight - 1) :
         \/ p[1] = 0 \/ p[1] = ExtentWidth - 1
         \/ p[2] = 0 \/ p[2] = ExtentHeight - 1}

\* C14: after the slope loop every pixel of the outermost border has slope 0
\* and its four RGBA bytes 0, in the buffers and on the canvas, and every
\* index of the elevation buffer the loop reads is in [0, width * height).
C14_BorderNeverComputed ==
    mosaicData /= <<>> =>
        /\ \A p \in Border :
               LET idx == p[2] * ExtentWidth + p[1]
               IN  /\ Element(slopeData, idx) = 0
                   /\ SubSeq(rgbaData, idx * 4 + 1, idx * 4 + 4) = <<0, 0, 0, 0>>
                   /\ SubSeq(TheValue(geoData).canvas, idx * 4 + 1, idx * 4 + 4)
                          = <<0, 0, 0, 0>>
        /\ \A x \in 0 .. ExtentWidth - 1 : \A y \in 0 .. ExtentHeight - 1 :
               InLoop(x, y, ExtentWidth, ExtentHeight) =>
                   LET at == StencilIdx(ExtentWidth, x, y)
                   IN  {at.N, at.S, at.E, at.W}
                           \subseteq 0 .. ExtentWidth * ExtentHeight - 1

\* A mosaic with coloured interior pixels whose border holds elevations that
\* differ along it.
C14_Witness ==
    /\ mosaicData /= <<>>
    /\ \E q \in Interior :
           Element(rgbaData, (q[2] * ExtentWidth + q[1]) * 4 + 3) = 210
    /\ \E p \in Border : \E q \in Border :
           Element(mosaicData, p[2] * ExtentWidth + p[1])
               /= Element(mosaicData, q[2] * ExtentWidth + q[1])

\* All pixels of the mosaic, as <<x, y>>, and the four bytes of a pixel in a
\* buffer of four bytes per pixel.
Pixels == (0 .. ExtentWidth - 1) \X (0 .. ExtentHeight - 1)
BytesAt(buffer, p) ==
    SubSeq(buffer, (p[2] * ExtentWidth + p[1]) * 4 + 1,
           (p[2] * ExtentWidth + p[1]) * 4 + 4)

\* The edges of each ring drawn, ring by ring, and the centre of pixel p, in
\* the coordinates of the path.
EdgesOfRings ==
    LET rings == RingsDrawn(features)
        b == MosaicBounds(TheValue(range))
    IN  [k \in 1 .. Len(rings) |->
            RingEdges(rings[k], b, ExtentWidth, ExtentHeight)]
CentreOf(p) ==
    <<CentreX(p[1], MosaicBounds(TheValue(range))),
      CentreY(p[2], MosaicBounds(TheValue(range)))>>

\* The centre of pixel p lies outside every ring, and inside the region the
\* fill of the whole path covers.
OutsideAllRings(p) ==
    \A k \in DOMAIN EdgesOfRings : Winding(EdgesOfRings[k], CentreOf(p)) = 0
InsideFill(p) ==
    Filled(PathEdges(features, MosaicBounds(TheValue(range)), ExtentWidth,
                     ExtentHeight),
           MosaicBounds(TheValue(range)), p[1], p[2])

\* C18: on the canvas after the clip a pixel outside all rings has alpha 0, a
\* pixel inside the filled region has the four bytes the classification gave
\* it, and every pixel has either those four bytes or four zeros: no colour
\* is changed and no transparent pixel becomes visible.
C18_ClipIsAMask ==
    geoData /= Null =>
        \A p \in Pixels :
            LET onCanvas == BytesAt(TheValue(geoData).canvas, p)
                classified == BytesAt(rgbaData, p)
            IN  /\ OutsideAllRings(p) => onCanvas[4] = 0
                /\ InsideFill(p) => onCanvas = classified
                /\ onCanvas \in {classified, <<0, 0, 0, 0>>}
                /\ classified[4] = 0 => onCanvas[4] = 0

\* A classified pixel is kept, another classified pixel is cleared, and an
\* unclassified pixel lies inside the filled region.
C18_Witness ==
    /\ geoData /= Null
    /\ \E p \in Pixels :
           InsideFill(p) /\ BytesAt(TheValue(geoData).canvas, p)[4] = 210
    /\ \E p \in Pixels :
           /\ OutsideAllRings(p)
           /\ BytesAt(rgbaData, p)[4] = 210
           /\ BytesAt(TheValue(geoData).canvas, p)[4] = 0
    /\ \E p \in Pixels : InsideFill(p) /\ BytesAt(rgbaData, p)[4] = 0

\* The polygon of the analysis has an outer and an inner ring; the winding
\* numbers of the two around the centre of pixel p.
HasInnerRing == Len(RingsDrawn(features)) = 2
OuterWinding(p) == Winding(EdgesOfRings[1], CentreOf(p))
InnerWinding(p) == Winding(EdgesOfRings[2], CentreOf(p))

\* C19, as amended: of a Polygon with an inner ring nested in its outer ring,
\* a pixel between the rings is kept by the clip; a pixel inside the inner
\* ring is kept, with its classified colour and alpha, when the inner ring has
\* the vertex orientation of the outer ring, and is cleared, as a hole, when
\* the inner ring has the opposite orientation.
C19_InnerRingByOrientation ==
    (geoData /= Null /\ HasInnerRing) =>
        \A p \in Pixels :
            LET onCanvas == BytesAt(TheValue(geoData).canvas, p)
            IN  /\ (OuterWinding(p) /= 0 /\ InnerWinding(p) = 0)
                       => onCanvas = BytesAt(rgbaData, p)
                /\ (InnerWinding(p) /= 0 /\ InnerWinding(p) = OuterWinding(p))
                       => onCanvas = BytesAt(rgbaData, p)
                /\ (InnerWinding(p) /= 0 /\ InnerWinding(p) = 0 - OuterWinding(p))
                       => onCanvas = <<0, 0, 0, 0>>

\* A classified pixel inside an inner ring of the opposite orientation is
\* cleared and a classified pixel between the rings is kept.
C19_Witness ==
    /\ geoData /= Null
    /\ HasInnerRing
    /\ \E p \in Pixels :
           /\ InnerWinding(p) /= 0
           /\ InnerWinding(p) = 0 - OuterWinding(p)
           /\ BytesAt(rgbaData, p)[4] = 210
           /\ BytesAt(TheValue(geoData).canvas, p)[4] = 0
    /\ \E p \in Pixels :
           /\ OuterWinding(p) /= 0 /\ InnerWinding(p) = 0
           /\ BytesAt(TheValue(geoData).canvas, p)[4] = 210

\* C19 as stated: a pixel inside the inner ring is kept by the clip, like a
\* pixel between the rings, for either orientation of the inner ring.
C19_InnerRingNeverAHole ==
    (geoData /= Null /\ HasInnerRing) =>
        \A p \in Pixels :
            (OuterWinding(p) /= 0 \/ InnerWinding(p) /= 0)
                => BytesAt(TheValue(geoData).canvas, p) = BytesAt(rgbaData, p)

\* The world file of the published analysis, and the west and north edges and
\* the size of the mosaic of that analysis, from its tile range.
WorldFile == TheValue(handleDownload(geoData)).tfw
PublishedWest == tile2lng(TheValue(range).xMin, TILE_ZOOM)
PublishedEast == tile2lng(TheValue(range).xMax + 1, TILE_ZOOM)
PublishedNorth == tile2lat(TheValue(range).yMin, TILE_ZOOM)
PublishedSouth == tile2lat(TheValue(range).yMax + 1, TILE_ZOOM)
PublishedWidth == MosaicWidth(TheValue(range))
PublishedHeight == MosaicHeight(TheValue(range))

\* C20: the origin lines of the world file written by handleDownload are
\* west + pixelW / 2 and north - pixelH / 2 of the analysis published in
\* geoData, the centre of the top-left pixel, each written to the last digit
\* the file keeps: the written X differs from
\* west + (east - west) / (2 * width) by at most half a step of that digit,
\* and the written Y from north - (north - south) / (2 * height) likewise.
C20_ExportOriginPixelCentre ==
    geoData /= Null =>
        /\ handleDownload(geoData) /= Null
        /\ 2 * Abs(2 * PublishedWidth * WorldFile[5]
                   - FixedPerUnit * (2 * PublishedWidth * PublishedWest
                                     + (PublishedEast - PublishedWest)))
               <= 2 * PublishedWidth
        /\ 2 * Abs(2 * PublishedHeight * WorldFile[6]
                   - FixedPerUnit * (2 * PublishedHeight * PublishedNorth
                                     - (PublishedNorth - PublishedSouth)))
               <= 2 * PublishedHeight

\* An analysis is published and the origin written for it lies inside the
\* top-left pixel, off its corner; half a pixel is not a whole number of
\* steps of the last digit, so the written value is a rounded one.
C20_Witness ==
    /\ geoData /= Null
    /\ WorldFile[5] > FixedPerUnit * PublishedWest
    /\ WorldFile[5] < FixedPerUnit * PublishedWest + WorldFile[1]
    /\ WorldFile[6] < FixedPerUnit * PublishedNorth
    /\ WorldFile[6] > FixedPerUnit * PublishedNorth + WorldFile[4]
    /\ (FixedPerUnit * (PublishedNorth - PublishedSouth))
           % (2 * PublishedHeight) /= 0

\* C21: the bundle of handleDownload has exactly three entries, the clipped
\* raster, the world file and the projection descriptor; the world file has
\* six lines, the pixel width, 0, 0, the negated pixel height, the origin X
\* and the origin Y of the published mosaic in this order, each written to the
\* last digit the file keeps; the first line is positive and the fourth
\* negative.
C21_ExportBundleLayout ==
    geoData /= Null =>
        LET bundle == TheValue(handleDownload(geoData))
        IN  /\ DOMAIN bundle = {"tif", "tfw", "prj"}
            /\ bundle.tif = TheValue(geoData).canvas
            /\ Len(bundle.tfw) = 6
            /\ bundle.tfw[1] > 0
            /\ 2 * Abs(PublishedWidth * bundle.tfw[1]
                       - FixedPerUnit * (PublishedEast - PublishedWest))
                   <= PublishedWidth
            /\ bundle.tfw[2] = 0
            /\ bundle.tfw[3] = 0
            /\ bundle.tfw[4] < 0
            /\ 2 * Abs(PublishedHeight * bundle.tfw[4]
                       + FixedPerUnit * (PublishedNorth - PublishedSouth))
                   <= PublishedHeight
            /\ bundle.tfw[5] >= FixedPerUnit * PublishedWest
            /\ bundle.tfw[5] <= FixedPerUnit * PublishedEast
            /\ bundle.tfw[6] <= FixedPerUnit * PublishedNorth
            /\ bundle.tfw[6] >= FixedPerUnit * PublishedSouth

\* An analysis is published whose pixels are not square, so the first and the
\* fourth line of its world file differ in size as well as in sign, as do the
\* two origin lines.
C21_Witness ==
    /\ geoData /= Null
    /\ status = "done"
    /\ WorldFile[1] > 0
    /\ WorldFile[4] < 0
    /\ WorldFile[1] /= 0 - WorldFile[4]
    /\ WorldFile[5] /= WorldFile[6]

\* The tiles of the request's range, as listed for the fetch.
Listed == TilesToFetch(TheValue(range))

\* C23: for a range with xMin <= xMax and yMin <= yMax the list of tiles to
\* fetch holds every (x, y) of the range exactly once and nothing else, all
\* at zoom 12, so its length is (xMax - xMin + 1) * (yMax - yMin + 1); the
\* request has one fetch per listed tile, and a fetch that has resolved, to a
\* tile or to null, is not issued again: its entry never changes.
C23_TileEnumeration ==
    /\ [](range /= Null =>
             LET r == TheValue(range)
             IN  (r.xMin <= r.xMax /\ r.yMin <= r.yMax) =>
                     /\ \A x \in r.xMin .. r.xMax : \A y \in r.yMin .. r.yMax :
                            Cardinality({i \in DOMAIN Listed :
                                             Listed[i].x = x /\ Listed[i].y = y})
                                = 1
                     /\ \A i \in DOMAIN Listed :
                            /\ Listed[i].x \in r.xMin .. r.xMax
                            /\ Listed[i].y \in r.yMin .. r.yMax
                            /\ Listed[i].z = 12
                     /\ Len(Listed)
                            = (r.xMax - r.xMin + 1) * (r.yMax - r.yMin + 1)
                     /\ DOMAIN tileBuffers = DOMAIN Listed
                     /\ \A i \in DOMAIN tileBuffers :
                            /\ tileBuffers[i].x = Listed[i].x
                            /\ tileBuffers[i].y = Listed[i].y)
    /\ [][/\ DOMAIN tileBuffers' = DOMAIN tileBuffers
          /\ \A i \in DOMAIN tileBuffers :
                 tileBuffers[i].state /= "pending"
                     => tileBuffers'[i] = tileBuffers[i]]_vars

\* A request over two columns and two rows of tiles has ended with a failed
\* fetch among its four.
C23_Witness ==
    /\ range /= Null
    /\ TheValue(range).xMin < TheValue(range).xMax
    /\ TheValue(range).yMin < TheValue(range).yMax
    /\ Len(tileBuffers) = 4
    /\ StillPending = {}
    /\ Failed /= {}
    /\ status = "done"

\* Pixel q lies in the sub-rectangle of a tile whose fetch failed, and the
\* four pixels the loop reads around pixel p.
InFailedTile(q) ==
    \E i \in Failed :
        /\ q[1] \div TILE_SIZE = tileBuffers[i].x - TheValue(range).xMin
        /\ q[2] \div TILE_SIZE = tileBuffers[i].y - TheValue(range).yMin
NeighbourPixels(p) ==
    {<<p[1], p[2] - 1>>, <<p[1], p[2] + 1>>, <<p[1] + 1, p[2]>>,
     <<p[1] - 1, p[2]>>}

In == TheValue(tileIn)
Out == TheValue(tileOut)
Applied(kind) == tileOut /= Null /\ In.kind = kind

\* The bounds of the tile range r, written out.
GridBounds(r) ==
    [north |-> tile2lat(r.yMin, TILE_ZOOM),
     west |-> tile2lng(r.xMin, TILE_ZOOM),
     south |-> tile2lat(r.yMax + 1, TILE_ZOOM),
     east |-> tile2lng(r.xMax + 1, TILE_ZOOM)]

\* The published bounds, north, west and pixel sizes are those of the tile
\* range, and two boxes of the same tile range publish the same.
FromTileGridOnly ==
    /\ Out.published.imageBounds = GridBounds(Out.range)
    /\ Out.published.north = tile2lat(Out.range.yMin, TILE_ZOOM)
    /\ Out.published.west = tile2lng(Out.range.xMin, TILE_ZOOM)
    /\ Out.published.pixelW =
           <<tile2lng(Out.range.xMax + 1, TILE_ZOOM)
                 - tile2lng(Out.range.xMin, TILE_ZOOM),
             (Out.range.xMax - Out.range.xMin + 1) * TILE_SIZE>>
    /\ Out.published.pixelH =
           <<tile2lat(Out.range.yMin, TILE_ZOOM)
                 - tile2lat(Out.range.yMax + 1, TILE_ZOOM),
             (Out.range.yMax - Out.range.yMin + 1) * TILE_SIZE>>
    /\ Out.range = Out.otherRange => Out.published = Out.otherPublished

\* C8, as amended: the published bounds and pixel sizes are functions of the
\* tile range only, and they contain the query box up to the rounding error
\* of the tile index computation, one step of the grid: a side of the box
\* that lies within the rounding error outside a tile edge is assigned to the
\* tile inside the edge.
C8_BoundsFromTileGrid ==
    Applied("box") =>
        /\ FromTileGridOnly
        /\ Out.published.imageBounds.west <= In.box.west + 1
        /\ Out.published.imageBounds.east >= In.box.east - 1
        /\ Out.published.imageBounds.north >= In.box.north - 1
        /\ Out.published.imageBounds.south <= In.box.south + 1

\* Two different boxes of one tile range, of two columns and two rows, whose
\* sides lie off the tile edges.
C8_Witness ==
    /\ Applied("box")
    /\ In.box /= In.other
    /\ Out.range = Out.otherRange
    /\ Out.range.xMin < Out.range.xMax
    /\ Out.range.yMin < Out.range.yMax
    /\ Out.published.imageBounds.west < In.box.west
    /\ Out.published.imageBounds.north > In.box.north

\* C8 as stated: the published bounds are functions of the tile range only
\* and contain the query box.
C8_BoundsContainQuery ==
    Applied("box") =>
        /\ FromTileGridOnly
        /\ Out.published.imageBounds.west <= In.box.west
        /\ Out.published.imageBounds.east >= In.box.east
        /\ Out.published.imageBounds.north >= In.box.north
        /\ Out.published.imageBounds.south <= In.box.south

\* The rows of zoom z both of whose edges the table holds.
RowInTable(y, z) ==
    /\ RowAtTableZoom(y, z) \in DOMAIN EdgeLat10
    /\ RowAtTableZoom(y + 1, z) \in DOMAIN EdgeLat10

\* C9, as amended: lng2tile(tile2lng(x, z), z) = x; a longitude of tile x is
\* at most the rounding error (one step of the grid) west of tile2lng(x, z)
\* and is west of tile2lng(x + 1, z); a longitude between tile2lng(x, z) and
\* tile2lng(x + 1, z), the rounding error away from the east edge, maps to x;
\* lat2tile(tile2lat(y, z), z) is y or y - 1; a latitude of row y is within
\* the rounding error of the row's edges, and a latitude between the edges,
\* the rounding error away from both, maps to y.
C9_TileMathRoundTrip ==
    /\ Applied("lng") =>
           /\ Out.corner = Out.x
           /\ Out.west - 1 <= In.value
           /\ In.value < Out.east
           /\ \A x \in Out.x - 1 .. Out.x + 1 :
                  (/\ tile2lng(x, In.zoom) <= In.value
                   /\ In.value < tile2lng(x + 1, In.zoom) - 1)
                      => Out.x = x
    /\ Applied("lat") =>
           /\ Out.corner \in {Out.y - 1, Out.y}
           /\ Out.south - 1 <= In.value
           /\ In.value <= Out.north + 1
           /\ \A y \in Out.y - 1 .. Out.y + 1 :
                  (/\ RowInTable(y, In.zoom)
                   /\ tile2lat(y + 1, In.zoom) + 1 <= In.value
                   /\ In.value <= tile2lat(y, In.zoom) - 1)
                      => Out.y = y

\* A latitude whose row's north edge maps to the row north of it, at a zoom
\* below TILE_ZOOM.
C9_Witness ==
    /\ Applied("lat")
    /\ In.zoom < TILE_ZOOM
    /\ Out.corner = Out.y - 1
    /\ In.value < Out.north

\* C9 as stated: every longitude and latitude inside a tile maps to the tile,
\* the edges of a tile bracket its longitudes, and the north-west corner of a
\* tile maps to the tile.
C9_ExactRoundTrip ==
    /\ Applied("lng") =>
           /\ Out.corner = Out.x
           /\ Out.west <= In.value
           /\ In.value < Out.east
           /\ \A x \in Out.x - 1 .. Out.x + 1 :
                  (/\ tile2lng(x, In.zoom) <= In.value
                   /\ In.value < tile2lng(x + 1, In.zoom))
                      => Out.x = x
    /\ Applied("lat") =>
           /\ Out.corner = Out.y
           /\ \A y \in Out.y - 1 .. Out.y + 1 :
                  (/\ RowInTable(y, In.zoom)
                   /\ tile2lat(y + 1, In.zoom) < In.value
                   /\ In.value <= tile2lat(y, In.zoom))
                      => Out.y = y

\* ------------------------------------------------------------------------
\* Claims about the slope loop
\* ------------------------------------------------------------------------

\* The pixel of the input is computed: no neighbour is void.
Computed ==
    /\ Applied("stencil")
    /\ \A z \in {In.zN, In.zS, In.zE, In.zW} : z >= -10000

\* The classes as <<exclusive lower bound, inclusive upper bound>>, in the
\* order of SLOPE_RANGES; a slope is at least 0.
ClassBounds ==
    << <<-1, 2>>, <<2, 5>>, <<5, 9>>, <<9, 15>>, <<15, 20>>, <<20, 25>>,
       <<25, 30>>, <<30, 35>>, <<35, 45>>, <<45, 999>> >>

\* C11: a computed pixel whose slope is above the lower bound of a class and
\* at most its upper bound has the colour of that class, at alpha 210: a slope
\* of exactly 2 has the colour of '0-2', a slope above 2 and at most 5 that of
\* '2-5', and so at every breakpoint.
C11_ClassificationRule ==
    Computed =>
        \A k \in DOMAIN ClassBounds :
            (ClassBounds[k][1] < Out.slope /\ Out.slope <= ClassBounds[k][2])
                => /\ SLOPE_RANGES[k].max = ClassBounds[k][2]
                   /\ Out.rgba = SLOPE_RANGES[k].color \o <<210>>

\* A computed pixel whose slope is exactly 45, in the class '35-45'.
C11_Witness ==
    /\ Computed
    /\ Out.slope = 45
    /\ Out.rgba = <<192, 57, 43, 210>>

\* C30: a pixel of finite elevations that the nodata guard does not catch has
\* a slope in [0, 90] and the colour of one of the ten entries of
\* SLOPE_RANGES, an entry whose max is at least the slope (the last, of max
\* 999, for every slope above 45), never the fallback '#00000000', and alpha
\* 210; a pixel the guard catches has alpha 0: the alpha is 0 or 210.
C30_ClassificationTotal ==
    Applied("stencil") =>
        /\ Len(SLOPE_RANGES) = 10
        /\ Computed =>
               /\ Out.slope \in 0 .. 90
               /\ \E k \in DOMAIN SLOPE_RANGES :
                      /\ Out.slope <= SLOPE_RANGES[k].max
                      /\ Out.rgba = SLOPE_RANGES[k].color \o <<210>>
               /\ Out.slope > 45 =>
                      /\ SLOPE_RANGES[10].max = 999
                      /\ Out.rgba = SLOPE_RANGES[10].color \o <<210>>
               /\ SubSeq(Out.rgba, 1, 3) /= <<0, 0, 0>>
               /\ Out.rgba[4] = 210
        /\ ~Computed => Out.rgba[4] = 0
        /\ Out.rgba[4] \in {0, 210}

\* A computed pixel on a rise of 30000 m over 1000 m: a slope above 45, in
\* the last class.
C30_Witness ==
    /\ Computed
    /\ In.zE = 30000
    /\ Out.slope > 45
    /\ Out.slope <= 90
    /\ Out.rgba = <<146, 43, 33, 210>>

\* ------------------------------------------------------------------------
\* Claims about the drawn-geometry export
\* ------------------------------------------------------------------------

\* The positions of the pieces of text `text` in the document, in order, and
\* the numbers written between two positions, in order.
PositionsOf(doc, text) ==
    SelectSeq([k \in 1 .. Len(doc) |-> k], LAMBDA k : doc[k].text = text)
NumbersBetween(doc, from, to) ==
    LET written == SelectSeq(SubSeq(doc, from, to), LAMBDA t : t.text = "#")
    IN  [k \in 1 .. Len(written) |-> written[k].number]
TextBetween(doc, from, to) ==
    {doc[k].text : k \in from .. to}

\* The numbers of the pairs of a list of coordinates, in order.
NumbersOf(coords) ==
    Flatten([k \in 1 .. Len(coords) |-> <<coords[k][1], coords[k][2]>>])

\* What the placemark of a feature is to carry after its name.
Carried(f) ==
    IF f.geometry.type = "Point" THEN f.geometry.coordinates
    ELSE IF f.geometry.type = "LineString" THEN NumbersOf(f.geometry.coordinates)
    ELSE IF f.geometry.type = "Polygon" THEN NumbersOf(f.geometry.coordinates[1])
    ELSE <<>>

\* C22: the document of generateKML has one placemark per feature of its
\* input, in input order, the i-th (from 0) named 'Shape ' i+1; the placemark
\* of a Point carries its pair, that of a LineString all of its pairs in
\* order, that of a Polygon the pairs of its first ring in order and nothing
\* else.
C22_OnePlacemarkPerFeature ==
    Applied("kml") =>
        LET doc == Out.kml
            opens == PositionsOf(doc, "<Placemark>")
            closes == PositionsOf(doc, "</Placemark>")
        IN  /\ Len(opens) = Len(In.features)
            /\ Len(closes) = Len(In.features)
            /\ \A i \in 1 .. Len(In.features) :
                   LET f == In.features[i]
                       texts == TextBetween(doc, opens[i], closes[i])
                   IN  /\ opens[i] < closes[i]
                       /\ i < Len(In.features) => closes[i] < opens[i + 1]
                       /\ doc[opens[i] + 2].text = "Shape "
                       /\ NumbersBetween(doc, opens[i], closes[i])
                              = <<i>> \o Carried(f)
                       /\ f.geometry.type = "Point" <=> "<Point>" \in texts
                       /\ f.geometry.type = "LineString"
                              <=> "<LineString>" \in texts
                       /\ f.geometry.type = "Polygon" <=> "<Polygon>" \in texts

\* The document of a point, a line and a polygon with a second ring, in one
\* order or another.
C22_Witness ==
    /\ Applied("kml")
    /\ Len(In.features) = 3
    /\ {In.features[i] : i \in 1 .. 3}
           = {PointFeatureA, LineAB, DonutOppositeOrientation}
    /\ Len(PositionsOf(Out.kml, "<Placemark>")) = 3

====
